---- MODULE Spec2Model ----
(***************************************************************************)
(* MassaChat: the chat contract (key-value ledger), the client adapter     *)
(* over it, the sealing engine and the send / receive flows of the web     *)
(* client.                                                                 *)
(*                                                                         *)
(* Strings are sequences of one-character strings, so that concatenation,  *)
(* indexOf, slicing, number formatting and parsing are computed as the     *)
(* code computes them and storage keys can really collide.                 *)
(***************************************************************************)
EXTENDS Integers, Sequences, FiniteSets, TLC

\* ------------------------------------------------------------------------
\* Bounds of the model
\* ------------------------------------------------------------------------

\* Ledger clock: Context.timestamp() starts at StartTime and advances up to
\* MaxTime (up to MaxTimeProfile where the claims do not read timestamps).
StartTime == 9
MaxTime == 11
MaxTimeProfile == 10
\* Largest number of events the ledger emits in one behaviour.
MaxEvents == 3
\* Largest number of operations the clients submit in one behaviour.
MaxSends == 2
\* Largest number of successful polls of the indexer in one behaviour.
MaxPolls == 3
\* MASSA_PERIOD_WINDOW, the default of the indexer.
PERIOD_WINDOW == 20

\* ------------------------------------------------------------------------
\* String primitives (AssemblyScript / JavaScript String)
\* ------------------------------------------------------------------------

Digits == <<"0", "1", "2", "3", "4", "5", "6", "7", "8", "9">>

UpperAscii ==
  <<"A", "B", "C", "D", "E", "F", "G", "H", "I", "J", "K", "L", "M",
    "N", "O", "P", "Q", "R", "S", "T", "U", "V", "W", "X", "Y", "Z">>

LowerAscii ==
  <<"a", "b", "c", "d", "e", "f", "g", "h", "i", "j", "k", "l", "m",
    "n", "o", "p", "q", "r", "s", "t", "u", "v", "w", "x", "y", "z">>

\* Position of ch in the table tbl, 0 when it is not in it.
PosIn(tbl, ch) ==
  IF \E i \in 1..Len(tbl) : tbl[i] = ch
    THEN CHOOSE i \in 1..Len(tbl) : tbl[i] = ch
    ELSE 0

\* u64.toString(): decimal digits, most significant first.
RECURSIVE u64ToString(_)
u64ToString(n) ==
  IF n < 10 THEN <<Digits[n + 1]>>
  ELSE u64ToString(n \div 10) \o <<Digits[(n % 10) + 1]>>

\* The longest prefix of s made of decimal digits.
RECURSIVE DigitPrefix(_)
DigitPrefix(s) ==
  IF s = <<>> \/ PosIn(Digits, Head(s)) = 0 THEN <<>>
  ELSE <<Head(s)>> \o DigitPrefix(Tail(s))

RECURSIVE DigitsValue(_, _)
DigitsValue(ds, acc) ==
  IF ds = <<>> THEN acc
  ELSE DigitsValue(Tail(ds), 10 * acc + (PosIn(Digits, Head(ds)) - 1))

\* <u64>I64.parseInt(s): the value of the leading decimal digits, 0 when
\* there is none (the integer parse has no NaN).  Signs, whitespace and radix
\* prefixes are outside the alphabet of the model.
parseInt(s) == DigitsValue(DigitPrefix(s), 0)

\* String.prototype.indexOf: 0-based position of the first occurrence of pat
\* in s, -1 when there is none.
indexOf(s, pat) ==
  LET hits == { i \in 1..(Len(s) - Len(pat) + 1) :
                  SubSeq(s, i, i + Len(pat) - 1) = pat }
  IN IF hits = {} THEN -1
     ELSE (CHOOSE i \in hits : \A j \in hits : i <= j) - 1

\* s.slice(from) for 0 <= from.
slice(s, from) == SubSeq(s, from + 1, Len(s))

\* s.substring(0, end).
substring0(s, end) == SubSeq(s, 1, end)

toLowerCharNone(ch) == ch

\* toLowerAscii: only the code units 65..90 (A..Z) are shifted by 32.
toLowerChar(ch) ==
  IF PosIn(UpperAscii, ch) > 0 THEN LowerAscii[PosIn(UpperAscii, ch)] ELSE ch

RECURSIVE toLowerAscii(_)
toLowerAscii(str) ==
  IF str = <<>> THEN <<>>
  ELSE <<toLowerChar(Head(str))>> \o toLowerAscii(Tail(str))

\* ------------------------------------------------------------------------
\* Storage keys of the contract
\* ------------------------------------------------------------------------

lastIndexKey(convId) ==
  <<"c", "o", "n", "v", ":">> \o convId \o <<":", "l", "a", "s", "t">>

messageKeyFlat(convId, index) ==
  <<"c", "o", "n", "v", ":">> \o convId \o <<":", "m", "s", "g", ":">>

messageKey(convId, index) ==
  <<"c", "o", "n", "v", ":">> \o convId \o <<":", "m", "s", "g", ":">>
    \o u64ToString(index)

profileKey(address) ==
  <<"p", "r", "o", "f", "i", "l", "e", ":">> \o address

usernameIndexKey(usernameLower) ==
  <<"u", "n", "a", "m", "e", ":">> \o usernameLower

privacyKey(address) ==
  <<"p", "r", "i", "v", "a", "c", "y", ":">> \o address

blockKey(owner, target) ==
  <<"b", "l", "o", "c", "k", ":">> \o owner \o <<":">> \o target

lastSeenKeyShared(address) ==
  <<"l", "a", "s", "t", "s", "e", "e", "n", ":">>

lastSeenKey(address) ==
  <<"l", "a", "s", "t", "s", "e", "e", "n", ":">> \o address

\* ------------------------------------------------------------------------
\* Stored models and their JSON text
\* ------------------------------------------------------------------------

MessageToJSONStampFirst(cid, timestamp) ==
  <<"{", "\"", "t", "i", "m", "e", "s", "t", "a", "m", "p", "\"", ":">>
    \o u64ToString(timestamp)
    \o <<",", "\"", "c", "i", "d", "\"", ":", "\"">> \o cid \o <<"\"", "}">>

MessageToJSON(cid, timestamp) ==
  <<"{", "\"", "c", "i", "d", "\"", ":", "\"">> \o cid
    \o <<"\"", ",", "\"", "t", "i", "m", "e", "s", "t", "a", "m", "p", "\"", ":">>
    \o u64ToString(timestamp) \o <<"}">>

ProfileToJSON(address, username, displayName, avatarCid, bio, createdAt, updatedAt) ==
  <<"{", "\"", "a", "d", "d", "r", "e", "s", "s", "\"", ":", "\"">> \o address
    \o <<"\"", ",", "\"", "u", "s", "e", "r", "n", "a", "m", "e", "\"", ":", "\"">>
    \o username
    \o <<"\"", ",", "\"", "d", "i", "s", "p", "l", "a", "y", "N", "a", "m", "e", "\"", ":", "\"">>
    \o displayName
    \o <<"\"", ",", "\"", "a", "v", "a", "t", "a", "r", "C", "i", "d", "\"", ":", "\"">>
    \o avatarCid
    \o <<"\"", ",", "\"", "b", "i", "o", "\"", ":", "\"">> \o bio
    \o <<"\"", ",", "\"", "c", "r", "e", "a", "t", "e", "d", "A", "t", "\"", ":">>
    \o u64ToString(createdAt)
    \o <<",", "\"", "u", "p", "d", "a", "t", "e", "d", "A", "t", "\"", ":">>
    \o u64ToString(updatedAt) \o <<"}">>

BoolText(b) == IF b THEN <<"t", "r", "u", "e">> ELSE <<"f", "a", "l", "s", "e">>

PrivacyToJSONOneFlag(showLastSeen, showProfilePhoto, showBio) ==
  <<"{", "\"", "s", "h", "o", "w", "L", "a", "s", "t", "S", "e", "e", "n", "\"", ":">>
    \o BoolText(showLastSeen)
    \o <<",", "\"", "s", "h", "o", "w", "P", "r", "o", "f", "i", "l", "e", "P", "h", "o", "t", "o", "\"", ":">>
    \o BoolText(showLastSeen)
    \o <<",", "\"", "s", "h", "o", "w", "B", "i", "o", "\"", ":">>
    \o BoolText(showLastSeen) \o <<"}">>

PrivacyToJSON(showLastSeen, showProfilePhoto, showBio) ==
  <<"{", "\"", "s", "h", "o", "w", "L", "a", "s", "t", "S", "e", "e", "n", "\"", ":">>
    \o BoolText(showLastSeen)
    \o <<",", "\"", "s", "h", "o", "w", "P", "r", "o", "f", "i", "l", "e", "P", "h", "o", "t", "o", "\"", ":">>
    \o BoolText(showProfilePhoto)
    \o <<",", "\"", "s", "h", "o", "w", "B", "i", "o", "\"", ":">>
    \o BoolText(showBio) \o <<"}">>

\* ------------------------------------------------------------------------
\* The key-value storage of the contract (Storage.has / get / set / del)
\* ------------------------------------------------------------------------

StorageHas(S, key) == key \in DOMAIN S

StorageSet(S, key, value) ==
  [k \in (DOMAIN S) \cup {key} |-> IF k = key THEN value ELSE S[k]]

StorageDel(S, key) == [k \in (DOMAIN S) \ {key} |-> S[k]]

EmptyStorage == [k \in {} |-> <<>>]

\* ------------------------------------------------------------------------
\* JSON.parse of the texts the contract stores (a flat object whose values
\* are strings, non-negative integers and booleans; no whitespace).  A value
\* is [t, s, n]: t its type, s the text of a string, n the number (1 / 0 for
\* true / false).  A repeated key keeps its last value; a text that is not
\* such an object does not parse (JSON.parse throws).
\* ------------------------------------------------------------------------

JsonFail == [ok |-> FALSE, val |-> <<>>, next |-> 0]

\* The position of the first quote or backslash of s at or after i, 0 when
\* there is none.
RECURSIVE JsonStringStop(_, _)
JsonStringStop(s, i) ==
  IF i > Len(s) THEN 0
  ELSE IF s[i] = "\"" \/ s[i] = "\\" THEN i
  ELSE JsonStringStop(s, i + 1)

\* The characters of a string literal from position i (just after the opening
\* quote) to its closing quote; next is the position after that quote.
RECURSIVE JsonReadString(_, _, _)
JsonReadString(s, i, acc) ==
  LET j == JsonStringStop(s, i)
  IN IF j = 0 THEN JsonFail
     ELSE IF s[j] = "\""
       THEN [ok |-> TRUE, val |-> acc \o SubSeq(s, i, j - 1), next |-> j + 1]
     ELSE IF j + 1 <= Len(s) /\ s[j + 1] \in {"\"", "\\", "/"}
       THEN JsonReadString(s, j + 2, acc \o SubSeq(s, i, j - 1) \o <<s[j + 1]>>)
     ELSE JsonFail

JsonReadValue(s, i) ==
  IF i > Len(s) THEN JsonFail
  ELSE IF s[i] = "\""
    THEN LET r == JsonReadString(s, i + 1, <<>>)
         IN IF r.ok
              THEN [ok |-> TRUE, val |-> [t |-> "string", s |-> r.val, n |-> 0],
                    next |-> r.next]
              ELSE JsonFail
  ELSE IF PosIn(Digits, s[i]) > 0
    THEN LET ds == DigitPrefix(SubSeq(s, i, Len(s)))
         IN IF Len(ds) > 1 /\ ds[1] = "0" THEN JsonFail
            ELSE [ok |-> TRUE,
                  val |-> [t |-> "number", s |-> <<>>, n |-> DigitsValue(ds, 0)],
                  next |-> i + Len(ds)]
  ELSE IF SubSeq(s, i, i + 3) = <<"t", "r", "u", "e">>
    THEN [ok |-> TRUE, val |-> [t |-> "boolean", s |-> <<>>, n |-> 1], next |-> i + 4]
  ELSE IF SubSeq(s, i, i + 4) = <<"f", "a", "l", "s", "e">>
    THEN [ok |-> TRUE, val |-> [t |-> "boolean", s |-> <<>>, n |-> 0], next |-> i + 5]
  ELSE JsonFail

\* The members of an object from position i (the opening quote of a key).
RECURSIVE JsonMembers(_, _, _)
JsonMembers(s, i, obj) ==
  IF i > Len(s) \/ s[i] # "\"" THEN [ok |-> FALSE, obj |-> obj]
  ELSE
    LET k == JsonReadString(s, i + 1, <<>>)
    IN IF ~k.ok \/ k.next > Len(s) \/ s[k.next] # ":" THEN [ok |-> FALSE, obj |-> obj]
       ELSE
         LET v == JsonReadValue(s, k.next + 1)
         IN IF ~v.ok \/ v.next > Len(s) THEN [ok |-> FALSE, obj |-> obj]
            ELSE
              LET obj1 == [x \in (DOMAIN obj) \cup {k.val} |->
                             IF x = k.val THEN v.val ELSE obj[x]]
              IN IF s[v.next] = "," THEN JsonMembers(s, v.next + 1, obj1)
                 ELSE IF s[v.next] = "}" /\ v.next = Len(s)
                   THEN [ok |-> TRUE, obj |-> obj1]
                 ELSE [ok |-> FALSE, obj |-> obj1]

JsonParse(s) ==
  LET none == [x \in {} |-> [t |-> "string", s |-> <<>>, n |-> 0]]
  IN IF Len(s) < 2 \/ s[1] # "{" THEN [ok |-> FALSE, obj |-> none]
     ELSE IF s[2] = "}" THEN [ok |-> Len(s) = 2, obj |-> none]
     ELSE JsonMembers(s, 2, none)

\* ------------------------------------------------------------------------
\* Sealing engine (tweetnacl box, tweetnacl-util codecs)
\*
\* A keypair is named by a key id k: its public half is [pub |-> k], its
\* secret half [sec |-> k].  The box is an ideal authenticated cipher: a
\* ciphertext records the shared key (the unordered pair of the two key ids,
\* as Diffie-Hellman gives both sides the same key), the nonce and the bytes
\* sealed, and opens only under the same shared key and nonce.  A base64 text
\* is [b64 |-> TRUE, data |-> d] for encodeBase64(d), and b64 FALSE for a text
\* that is not base64.
\* ------------------------------------------------------------------------

\* The characters of the plaintext alphabet and their UTF-8 bytes.
Utf8Chars == <<"h", "i", " ", "é">>

Utf8Codes == << <<104>>, <<105>>, <<32>>, <<195, 169>> >>

\* naclUtil.decodeUTF8: the UTF-8 bytes of a string.
RECURSIVE decodeUTF8(_)
decodeUTF8(str) ==
  IF str = <<>> THEN <<>>
  ELSE Utf8Codes[PosIn(Utf8Chars, Head(str))] \o decodeUTF8(Tail(str))

\* naclUtil.encodeUTF8: the string of a UTF-8 byte array; ok is false (the
\* call throws) when the bytes are not UTF-8.
RECURSIVE encodeUTF8(_)
encodeUTF8(bytes) ==
  IF bytes = <<>> THEN [ok |-> TRUE, text |-> <<>>]
  ELSE
    LET fits == { k \in 1..Len(Utf8Codes) :
                    /\ Len(Utf8Codes[k]) <= Len(bytes)
                    /\ SubSeq(bytes, 1, Len(Utf8Codes[k])) = Utf8Codes[k] }
    IN IF fits = {} THEN [ok |-> FALSE, text |-> <<>>]
       ELSE
         LET k    == CHOOSE x \in fits : TRUE
             rest == encodeUTF8(SubSeq(bytes, Len(Utf8Codes[k]) + 1, Len(bytes)))
         IN [ok |-> rest.ok, text |-> <<Utf8Chars[k]>> \o rest.text]

encodeBase64(data) == [b64 |-> TRUE, data |-> data]

\* naclUtil.decodeBase64 throws on a text that is not base64.
decodeBase64(text) == [ok |-> text.b64, data |-> text.data]

encodePublicKey(key) == encodeBase64(key)

decodePublicKey(text) == decodeBase64(text)

PublicKey(k) == [pub |-> k]

SecretKey(k) == [sec |-> k]

\* The key nacl.box derives from one side's secret and the other's public key.
SharedKey(publicKey, secretKey) == {publicKey.pub, secretKey.sec}

naclBox(msg, nonce, publicKey, secretKey) ==
  [key |-> SharedKey(publicKey, secretKey), nonce |-> nonce, msg |-> msg]

naclBoxOpenAny(boxed, nonce, publicKey, secretKey) ==
  [ok |-> TRUE, msg |-> boxed.msg]

\* nacl.box.open: the bytes sealed, or null (ok false) when the box does not
\* authenticate under this key and nonce.
naclBoxOpen(boxed, nonce, publicKey, secretKey) ==
  IF boxed.key = SharedKey(publicKey, secretKey) /\ boxed.nonce = nonce
    THEN [ok |-> TRUE, msg |-> boxed.msg]
    ELSE [ok |-> FALSE, msg |-> <<>>]

\* encryptMessage with the nonce nacl.randomBytes drew.
encryptMessage(message, senderSecretKey, recipientPublicKey, nonce) ==
  [nonce |-> encodeBase64(nonce),
   box   |-> encodeBase64(naclBox(decodeUTF8(message), nonce,
                                  recipientPublicKey, senderSecretKey))]

\* The outcomes of decryptMessage: a string, null, or an exception.
Decrypted(text) == [threw |-> FALSE, null |-> FALSE, text |-> text]

DecryptNull == [threw |-> FALSE, null |-> TRUE, text |-> <<>>]

DecryptThrew == [threw |-> TRUE, null |-> FALSE, text |-> <<>>]

decryptMessageRawBytes(nonceB64, boxB64, senderPublicKey, recipientSecretKey) ==
  LET opened == naclBoxOpen(decodeBase64(boxB64).data, decodeBase64(nonceB64).data,
                            senderPublicKey, recipientSecretKey)
  IN IF ~opened.ok THEN DecryptNull
     ELSE Decrypted([i \in 1..Len(opened.msg) |-> "?"])

decryptMessage(nonceB64, boxB64, senderPublicKey, recipientSecretKey) ==
  LET nonce == decodeBase64(nonceB64)
      boxed == decodeBase64(boxB64)
  IN IF ~nonce.ok \/ ~boxed.ok THEN DecryptThrew
     ELSE
       LET opened == naclBoxOpen(boxed.data, nonce.data, senderPublicKey,
                                 recipientSecretKey)
       IN IF ~opened.ok THEN DecryptNull
          ELSE LET str == encodeUTF8(opened.msg)
               IN IF str.ok THEN Decrypted(str.text) ELSE DecryptThrew

\* ------------------------------------------------------------------------
\* State
\* ------------------------------------------------------------------------

VARIABLES
  Storage,      \* the contract's datastore: key string -> value string
  events,       \* the events emitted by generateEvent, oldest first
  now,          \* Context.timestamp() of the slot being executed
  ret,          \* the last contract call: name, arguments, outcome, result
  appended,     \* history: successful add_message calls per conversation id
  registered,   \* history: <<first, latest>> timestamp of the successful
                \* register_profile calls per address (<<0, 0>>: none yet)
  claimed,      \* history: the <<address, username>> pairs of the successful
                \* register_profile calls
  seal,         \* one seal / open exchange of the sealing engine
  pinned,       \* the content store: the payloads pinned, in order
  sealedFor,    \* history: per pinned payload, the plaintext sealed and the
                \* key ids of its sender and of the recipient it was sealed for
  ops,          \* the add_message operations sent to the ledger, in order
  clients,      \* the state of each browser client
  indexer       \* the indexer process: its cursor, the outcome of its last
                \* poll and the events it has logged, oldest first

ledgerVars == <<Storage, events, now, ret, appended, registered, claimed>>

chatVars == <<pinned, sealedFor, ops, clients>>

vars ==
  <<Storage, events, now, ret, appended, registered, claimed, seal, pinned,
    sealedFor, ops, clients, indexer>>

\* ------------------------------------------------------------------------
\* Contract entry points.  A call maps the datastore and event log to the
\* outcome [ok, Storage, events, value]; a failed assert aborts the call and
\* leaves the ledger as it was.
\* ------------------------------------------------------------------------

CallOk(S, ev, value) == [ok |-> TRUE, Storage |-> S, events |-> ev, value |-> value]

CallAborted(S, ev) == [ok |-> FALSE, Storage |-> S, events |-> ev, value |-> 0]

\* lastIndex as add_message and get_last_index read it.
get_last_index(S, convId) ==
  IF ~StorageHas(S, lastIndexKey(convId)) THEN 0
  ELSE parseInt(S[lastIndexKey(convId)])

get_message(S, convId, index) ==
  IF ~StorageHas(S, messageKey(convId, index)) THEN <<>>
  ELSE S[messageKey(convId, index)]

NewIndexSame(lastIndex) == lastIndex

\* const newIndex = lastIndex + 1
NewIndex(lastIndex) == lastIndex + 1

add_message(S, ev, t, convId, cid) ==
  LET lastIndex == get_last_index(S, convId)
      newIndex  == NewIndex(lastIndex)
      S1 == StorageSet(S, messageKey(convId, newIndex), MessageToJSON(cid, t))
      S2 == StorageSet(S1, lastIndexKey(convId), u64ToString(newIndex))
  IN CallOk(S2,
            Append(ev, <<"c", "h", "a", "t", ":", "m", "e", "s", "s", "a", "g", "e", ":">>
                         \o convId \o <<":">> \o u64ToString(newIndex)),
            newIndex)

\* The owner the username index records for a lower-cased username, <<>> when
\* the index has no entry.
IndexOwner(S, unameLower) ==
  IF StorageHas(S, usernameIndexKey(unameLower))
    THEN S[usernameIndexKey(unameLower)]
    ELSE <<>>

UsernameTakenNever(S, unameLower, ownerAddress) == FALSE

\* if (Storage.has(unameKey)) { if (existingOwner != ownerAddress) assert(false) }
UsernameTaken(S, unameLower, ownerAddress) ==
  /\ StorageHas(S, usernameIndexKey(unameLower))
  /\ S[usernameIndexKey(unameLower)] # ownerAddress

CreatedAtFor(S, ownerAddress, t) ==
  IF ~StorageHas(S, profileKey(ownerAddress)) THEN t
  ELSE
    LET existingRaw == S[profileKey(ownerAddress)]
        createdIdx  ==
          indexOf(existingRaw,
                  <<"\"", "c", "r", "e", "a", "t", "e", "d", "A", "t", "\"", ":">>)
    IN IF createdIdx < 0 THEN t
       ELSE
         LET sl  == slice(existingRaw, createdIdx + 12)
             end == indexOf(sl, <<",">>)
         IN IF end > 0 THEN parseInt(substring0(sl, end)) ELSE t

register_profile(S, ev, t, ownerAddress, username, displayName, avatarCid, bio) ==
  LET unameLower == toLowerAscii(username)
  IN IF Len(username) = 0 THEN CallAborted(S, ev)
     ELSE IF UsernameTaken(S, unameLower, ownerAddress) THEN CallAborted(S, ev)
     ELSE
       LET createdAt == CreatedAtFor(S, ownerAddress, t)
           S1 == StorageSet(S, profileKey(ownerAddress),
                   ProfileToJSON(ownerAddress, username, displayName, avatarCid,
                                 bio, createdAt, t))
           S2 == StorageSet(S1, usernameIndexKey(unameLower), ownerAddress)
       IN CallOk(S2,
                 Append(ev, <<"p", "r", "o", "f", "i", "l", "e", ":", "u", "p", "s", "e", "r", "t", ":">>
                              \o ownerAddress),
                 0)

get_profile_by_address(S, address) ==
  IF ~StorageHas(S, profileKey(address)) THEN <<>> ELSE S[profileKey(address)]

get_profile_by_username(S, username) ==
  LET unameLower == toLowerAscii(username)
  IN IF ~StorageHas(S, usernameIndexKey(unameLower)) THEN <<>>
     ELSE get_profile_by_address(S, S[usernameIndexKey(unameLower)])

set_privacy(S, ev, ownerAddress, showLastSeen, showProfilePhoto, showBio) ==
  CallOk(StorageSet(S, privacyKey(ownerAddress),
                    PrivacyToJSON(showLastSeen, showProfilePhoto, showBio)),
         Append(ev, <<"p", "r", "i", "v", "a", "c", "y", ":", "u", "p", "d", "a", "t", "e", ":">>
                      \o ownerAddress),
         0)

get_privacy(S, address) ==
  IF ~StorageHas(S, privacyKey(address)) THEN <<>> ELSE S[privacyKey(address)]

set_blocked(S, ev, owner, target, blocked) ==
  IF blocked
    THEN CallOk(StorageSet(S, blockKey(owner, target), <<"1">>),
                Append(ev, <<"b", "l", "o", "c", "k", ":", "s", "e", "t", ":">>
                             \o owner \o <<":">> \o target),
                0)
    ELSE CallOk(IF StorageHas(S, blockKey(owner, target))
                  THEN StorageDel(S, blockKey(owner, target)) ELSE S,
                Append(ev, <<"b", "l", "o", "c", "k", ":", "c", "l", "e", "a", "r", ":">>
                             \o owner \o <<":">> \o target),
                0)

is_blocked(S, owner, target) == StorageHas(S, blockKey(owner, target))

touch_last_seen(S, ev, t, address) ==
  CallOk(StorageSet(S, lastSeenKey(address), u64ToString(t)), ev, 0)

get_last_seen(S, address) ==
  IF ~StorageHas(S, lastSeenKey(address)) THEN 0
  ELSE parseInt(S[lastSeenKey(address)])

\* ------------------------------------------------------------------------
\* Inputs of the ledger model
\* ------------------------------------------------------------------------

\* Conversation ids; the second one embeds the message-key infix of the first.
ConvIds == { <<"c">>, <<"c", ":", "m", "s", "g", ":", "1">> }

Cids == { <<"Q", "1">>, <<"Q", "2">> }

Addresses == { <<"A">>, <<"B">> }

\* ------------------------------------------------------------------------
\* Ledger steps: one executed operation each
\* ------------------------------------------------------------------------

\* The number of successful appends recorded for a conversation id.
Appends(h, convId) == IF convId \in DOMAIN h THEN h[convId] ELSE 0

Counted(h, convId) ==
  [c \in (DOMAIN h) \cup {convId} |->
     IF c = convId THEN Appends(h, convId) + 1 ELSE h[c]]

\* let lastPeriod = 0n, before the first poll.
IndexerStart == [lastPeriod |-> 0, last |-> "none", logged |-> <<>>]

InitLedger ==
  /\ indexer = IndexerStart
  /\ Storage = EmptyStorage
  /\ events = <<>>
  /\ now = StartTime
  /\ ret = [op |-> "init", a |-> <<>>, b |-> <<>>, ok |-> TRUE, value |-> 0]
  /\ appended = [c \in {} |-> 0]
  /\ registered = [a \in Addresses |-> <<0, 0>>]
  /\ claimed = {}

SealIdle ==
  [stage |-> "idle", m |-> <<>>, sender |-> 0, recipient |-> 0, opener |-> 0,
   enc |-> [nonce |-> encodeBase64("n1"), box |-> encodeBase64(<<>>)],
   out |-> DecryptNull]

ChatIdle ==
  /\ pinned = <<>>
  /\ sealedFor = <<>>
  /\ ops = <<>>
  /\ clients = <<>>

InitContract == InitLedger /\ ChatIdle /\ seal = SealIdle

\* The slot clock advances.
Tick(limit) ==
  /\ now < limit
  /\ now' = now + 1
  /\ UNCHANGED <<Storage, events, ret, appended, registered, claimed>>
  /\ UNCHANGED <<seal, indexer, pinned, sealedFor, ops, clients>>

\* The effect of one executed contract call on the ledger.
Executed(op, a, b, r) ==
  /\ Storage' = r.Storage
  /\ events' = r.events
  /\ ret' = [op |-> op, a |-> a, b |-> b, ok |-> r.ok, value |-> r.value]
  /\ now' = now

Commit(op, a, b, r) ==
  /\ Executed(op, a, b, r)
  /\ UNCHANGED <<seal, indexer, pinned, sealedFor, ops, clients>>

AddMessage(convs, cids) ==
  \E convId \in convs, cid \in cids :
    /\ Len(events) < MaxEvents
    /\ Commit("add_message", convId, cid, add_message(Storage, events, now, convId, cid))
    /\ appended' = Counted(appended, convId)
    /\ UNCHANGED <<registered, claimed>>

RegisterProfile(addrs, unames, names, avatars, bios) ==
  \E ownerAddress \in addrs, username \in unames, displayName \in names,
     avatarCid \in avatars, bio \in bios :
    LET r == register_profile(Storage, events, now, ownerAddress, username,
                              displayName, avatarCid, bio)
    IN /\ Len(events) < MaxEvents
       /\ Commit("register_profile", ownerAddress, username, r)
       /\ registered' =
            IF r.ok
              THEN [registered EXCEPT ![ownerAddress] =
                      <<IF @[1] = 0 THEN now ELSE @[1], now>>]
              ELSE registered
       /\ claimed' = IF r.ok THEN claimed \cup {<<ownerAddress, username>>} ELSE claimed
       /\ UNCHANGED appended

SetPrivacy(addrs, flags) ==
  \E ownerAddress \in addrs, f \in flags :
    /\ Len(events) < MaxEvents
    /\ Commit("set_privacy", ownerAddress, f,
              set_privacy(Storage, events, ownerAddress, f[1], f[2], f[3]))
    /\ UNCHANGED <<appended, registered, claimed>>

SetBlocked(owners, targets) ==
  \E owner \in owners, target \in targets, blocked \in BOOLEAN :
    /\ Len(events) < MaxEvents
    /\ Commit("set_blocked", owner, target,
              set_blocked(Storage, events, owner, target, blocked))
    /\ UNCHANGED <<appended, registered, claimed>>

TouchLastSeen(addrs) ==
  \E address \in addrs :
    /\ Commit("touch_last_seen", address, <<>>,
              touch_last_seen(Storage, events, now, address))
    /\ UNCHANGED <<appended, registered, claimed>>

\* ------------------------------------------------------------------------
\* Message ledger: appends to two conversations interleaved with the other
\* operations of the contract.
\* ------------------------------------------------------------------------

NextMsg ==
  \/ Tick(MaxTime)
  \/ AddMessage(ConvIds, Cids)
  \/ RegisterProfile({<<"A">>}, {<<"b", "o", "b">>}, {<<>>}, {<<>>}, {<<>>})
  \/ SetPrivacy({<<"A">>}, {<<TRUE, FALSE, TRUE>>})
  \/ SetBlocked({<<"A">>}, {<<"B">>})
  \/ TouchLastSeen({<<"A">>})

SpecMsg == InitContract /\ [][NextMsg]_vars

\* C1: after exactly N successful add_message(c, .) calls, interleaved with
\* appends to other conversations and with profile, privacy, block and
\* last-seen operations, get_last_index(c) = N, get_message(c, i) is non-empty
\* for every i in 1..N and empty for i = 0 and i = N + 1.
C1_DenseIndices ==
  \A c \in ConvIds :
    /\ get_last_index(Storage, c) = Appends(appended, c)
    /\ \A i \in 0..(MaxEvents + 2) :
         (get_message(Storage, c, i) # <<>>) <=> (1 <= i /\ i <= Appends(appended, c))

\* Two appends to one conversation interleaved with one to the other.
C1_Witness ==
  \E c \in ConvIds :
    /\ Appends(appended, c) = 2
    /\ \E d \in ConvIds : d # c /\ Appends(appended, d) = 1
    /\ get_message(Storage, c, 2) # <<>>
    /\ get_message(Storage, c, 3) = <<>>

\* ------------------------------------------------------------------------
\* Profile registry: registrations by two addresses under usernames that
\* differ in case, interleaved with the other operations of the contract.
\* ------------------------------------------------------------------------

Usernames == { <<"b", "o">>, <<"B", "o">>, <<"a", "l">>, <<"É">>, <<"é">>, <<>> }

NextProfile ==
  \/ Tick(MaxTimeProfile)
  \/ RegisterProfile(Addresses, Usernames, {<<>>}, {<<>>}, {<<>>})
  \/ AddMessage({<<"c">>}, {<<"Q", "1">>})
  \/ SetPrivacy({<<"A">>}, {<<TRUE, FALSE, TRUE>>})
  \/ SetBlocked({<<"A">>}, {<<"B">>})
  \/ TouchLastSeen({<<"A">>})

SpecProfile == InitContract /\ [][NextProfile]_vars

F_username == <<"u", "s", "e", "r", "n", "a", "m", "e">>
F_createdAt == <<"c", "r", "e", "a", "t", "e", "d", "A", "t">>
F_updatedAt == <<"u", "p", "d", "a", "t", "e", "d", "A", "t">>

\* decodeProfileJson: the profile a client reads from the stored text, with
\* ok false when there is no text or it does not parse.
decodeProfileJson(json) ==
  IF json = <<>> THEN [ok |-> FALSE, obj |-> JsonParse(<<>>).obj]
  ELSE JsonParse(json)

\* The lower-cased usernames the model can put in the index.
IndexNames == { toLowerAscii(u) : u \in Usernames }

\* The folded usernames of the readable profiles, per address (<<>>: none).
FoldedProfileNames(S) ==
  [a \in Addresses |->
     LET p == decodeProfileJson(get_profile_by_address(S, a))
     IN IF p.ok /\ F_username \in DOMAIN p.obj
          THEN toLowerAscii(p.obj[F_username].s)
          ELSE <<>>]

\* C7: register_profile fails when the folded username is owned by another
\* address; a failed registration leaves the datastore and the event log as
\* they were; no step reassigns or removes an index entry; and no two
\* addresses hold profiles whose usernames fold to the same index key.
C7_Step ==
  /\ ( /\ ret'.op = "register_profile"
       /\ StorageHas(Storage, usernameIndexKey(toLowerAscii(ret'.b)))
       /\ Storage[usernameIndexKey(toLowerAscii(ret'.b))] # ret'.a )
     => ~ret'.ok
  /\ (ret'.op = "register_profile" /\ ~ret'.ok)
     => (Storage' = Storage /\ events' = events)
  /\ \A n \in IndexNames :
       StorageHas(Storage, usernameIndexKey(n))
         => /\ StorageHas(Storage', usernameIndexKey(n))
            /\ Storage'[usernameIndexKey(n)] = Storage[usernameIndexKey(n)]

C7_OneOwner ==
  LET names == FoldedProfileNames(Storage)
  IN \A a, b \in Addresses : (a # b /\ names[a] # <<>>) => names[a] # names[b]

C9_IndexMatchesProfile ==
  \A n \in IndexNames :
    StorageHas(Storage, usernameIndexKey(n))
      => LET p == decodeProfileJson(get_profile_by_username(Storage, n))
         IN (p.ok /\ F_username \in DOMAIN p.obj)
              => toLowerAscii(p.obj[F_username].s) = n

\* Two characters that are the upper- and lower-case form of one ASCII letter.
AsciiCasePair(x, y) ==
  \E k \in 1..Len(UpperAscii) : x = UpperAscii[k] /\ y = LowerAscii[k]

\* Letters outside ASCII that have two cases, as <<upper, lower>>.
OtherCasePairs == { <<"É", "é">> }

SameUpToAsciiCase(u, v) ==
  /\ Len(u) = Len(v)
  /\ \A i \in 1..Len(u) :
       u[i] = v[i] \/ AsciiCasePair(u[i], v[i]) \/ AsciiCasePair(v[i], u[i])

SameUpToCase(u, v) ==
  /\ Len(u) = Len(v)
  /\ \A i \in 1..Len(u) :
       \/ u[i] = v[i]
       \/ AsciiCasePair(u[i], v[i]) \/ AsciiCasePair(v[i], u[i])
       \/ <<u[i], v[i]>> \in OtherCasePairs \/ <<v[i], u[i]>> \in OtherCasePairs

ProfileTextHead(address, username) ==
  <<"{", "\"", "a", "d", "d", "r", "e", "s", "s", "\"", ":", "\"">> \o address
    \o <<"\"", ",", "\"", "u", "s", "e", "r", "n", "a", "m", "e", "\"", ":", "\"">>
    \o username
    \o <<"\"", ",", "\"", "d", "i", "s", "p", "l", "a", "y", "N", "a", "m", "e", "\"", ":", "\"">>

\* C10 as amended: the same for every u' that differs from u only in the case
\* of ASCII letters; a registration of such a u' by another address is
\* rejected; and the stored profile text carries u exactly as submitted.
C10_Lookup ==
  \A c \in claimed : \A v \in Usernames :
    SameUpToAsciiCase(c[2], v)
      => /\ get_profile_by_username(Storage, v) # <<>>
         /\ get_profile_by_username(Storage, v) = get_profile_by_address(Storage, c[1])

C10_Step ==
  /\ ( /\ ret'.op = "register_profile"
       /\ \E c \in claimed : c[1] # ret'.a /\ SameUpToAsciiCase(c[2], ret'.b) )
     => ~ret'.ok
  /\ (ret'.op = "register_profile" /\ ret'.ok)
     => LET text == get_profile_by_address(Storage', ret'.a)
            head == ProfileTextHead(ret'.a, ret'.b)
        IN SubSeq(text, 1, Len(head)) = head

BioWithCreatedAt ==
  <<"\"", ",", "\"", "c", "r", "e", "a", "t", "e", "d", "A", "t", "\"", ":", "7",
    ",", "\"", "x", "\"", ":", "\"">>

Bios == { <<>>, <<"h", "i">>, BioWithCreatedAt }

NextCreatedAt ==
  \/ Tick(MaxTime)
  \/ RegisterProfile(Addresses, {<<"b", "o">>, <<"a", "l">>}, {<<>>}, {<<>>}, Bios)
  \/ SetPrivacy({<<"A">>}, {<<TRUE, FALSE, TRUE>>})

SpecCreatedAt == InitContract /\ [][NextCreatedAt]_vars

\* C8: the stored profile's createdAt is the timestamp of the address's first
\* successful registration and updatedAt that of its latest one (wherever the
\* profile is readable).
C8_CreatedAtPreserved ==
  \A a \in Addresses :
    registered[a] # <<0, 0>>
      => LET p == decodeProfileJson(get_profile_by_address(Storage, a))
         IN (p.ok /\ F_createdAt \in DOMAIN p.obj /\ F_updatedAt \in DOMAIN p.obj)
              => /\ p.obj[F_createdAt].n = registered[a][1]
                 /\ p.obj[F_updatedAt].n = registered[a][2]

\* ------------------------------------------------------------------------
\* Sealing engine alone: one message sealed by a sender for a recipient key
\* and opened under some secret key.
\* ------------------------------------------------------------------------

\* Key ids of the keypairs in play.
MaxKeys == 3

KeyIds == 1..MaxKeys

Nonces == {"n1", "n2"}

Plaintexts ==
  { <<>>, <<"h">>, <<"h", "i">>, <<"é">>, <<"h", " ", "é">>, <<"é", "é", "i">> }

\* encryptMessage(m, sender.secretKey, recipient.publicKey)
Seal ==
  \E m \in Plaintexts, a \in KeyIds, b \in KeyIds, n \in Nonces :
    /\ seal.stage = "idle"
    /\ seal' = [seal EXCEPT !.stage = "sealed", !.m = m, !.sender = a,
                            !.recipient = b,
                            !.enc = encryptMessage(m, SecretKey(a), PublicKey(b), n)]
    /\ UNCHANGED <<ledgerVars, chatVars, indexer>>

\* decryptMessage(nonce, box, sender.publicKey, opener.secretKey)
Open ==
  \E x \in KeyIds :
    /\ seal.stage = "sealed"
    /\ seal' = [seal EXCEPT !.stage = "opened", !.opener = x,
                            !.out = decryptMessage(seal.enc.nonce, seal.enc.box,
                                                   PublicKey(seal.sender), SecretKey(x))]
    /\ UNCHANGED <<ledgerVars, chatVars, indexer>>

NextSeal == Seal \/ Open

SpecSeal == InitContract /\ [][NextSeal]_vars

\* C2: opening, with the sender's public key and the recipient's secret key,
\* what encryptMessage sealed for that recipient returns exactly the plaintext.
C2_RoundTrip ==
  (seal.stage = "opened" /\ seal.opener = seal.recipient)
    => seal.out = Decrypted(seal.m)

\* A two-byte character went through the round trip between distinct keys.
C2_Witness ==
  /\ seal.stage = "opened"
  /\ seal.opener = seal.recipient
  /\ seal.sender # seal.recipient
  /\ seal.m = <<"é", "é", "i">>
  /\ seal.out.text = <<"é", "é", "i">>

\* C3: opening with any other secret key returns null: it neither throws nor
\* returns a string.
C3_WrongKeyIsNull ==
  (seal.stage = "opened" /\ seal.opener # seal.recipient)
    => seal.out = DecryptNull

\* The sender's own secret key does not open the box either.
C3_Witness ==
  /\ seal.stage = "opened"
  /\ seal.sender # seal.recipient
  /\ seal.opener = seal.sender
  /\ seal.m = <<"h", "i">>
  /\ seal.out.null

\* ------------------------------------------------------------------------
\* The chat client: content store, ledger adapter, send and receive paths
\* ------------------------------------------------------------------------

\* The order of the UTF-16 code units of the characters of addresses.
CharOrder == <<"-", "A", "B", "C">>

\* a < b as Array.prototype.sort compares two strings.
RECURSIVE StrLess(_, _)
StrLess(a, b) ==
  IF b = <<>> THEN FALSE
  ELSE IF a = <<>> THEN TRUE
  ELSE IF Head(a) = Head(b) THEN StrLess(Tail(a), Tail(b))
  ELSE PosIn(CharOrder, Head(a)) < PosIn(CharOrder, Head(b))

conversationIdForUnsorted(a, b) ==
  <<"c", "o", "n", "v", "-">> \o a \o <<"-">> \o b

conversationIdFor(a, b) ==
  LET x == IF StrLess(b, a) THEN b ELSE a
      y == IF StrLess(b, a) THEN a ELSE b
  IN <<"c", "o", "n", "v", "-">> \o x \o <<"-">> \o y

DemoConvId ==
  <<"d", "e", "m", "o", "-", "c", "o", "n", "v", "e", "r", "s", "a", "t", "i", "o", "n">>

\* String.prototype.trim over the plaintext alphabet.
RECURSIVE trimStart(_)
trimStart(str) ==
  IF str # <<>> /\ Head(str) = " " THEN trimStart(Tail(str)) ELSE str

RECURSIVE trimEnd(_)
trimEnd(str) ==
  IF str # <<>> /\ str[Len(str)] = " "
    THEN trimEnd(SubSeq(str, 1, Len(str) - 1)) ELSE str

trimNone(str) == str

trim(str) == trimEnd(trimStart(str))

\* '[unable to decrypt]'
Marker ==
  <<"[", "u", "n", "a", "b", "l", "e", " ", "t", "o", " ", "d", "e", "c", "r",
    "y", "p", "t", "]">>

RenderTextRaw(decrypted) == decrypted.text

\* decrypted ?? '[unable to decrypt]'
RenderText(decrypted) == IF decrypted.null THEN Marker ELSE decrypted.text

\* The content id the store gives the k-th payload pinned.
CidOf(k) == <<"Q">> \o u64ToString(k)

\* fetchFromIPFS: the payload pinned under a content id; ok is false (the
\* call throws) when the gateway has nothing under it.
fetchFromIPFS(store, cid) ==
  LET found == { k \in 1..Len(store) : CidOf(k) = cid }
  IN IF found = {} THEN [ok |-> FALSE, payload |-> <<>>]
     ELSE [ok |-> TRUE, payload |-> store[CHOOSE k \in found : TRUE]]

\* A text the user typed that is no base64.
NotBase64 == [b64 |-> FALSE, data |-> [bytes |-> <<>>]]

\* A base64 text that decodes to bytes that are no public key.
NotAKey == encodeBase64([bytes |-> <<0>>])

IsPublicKey(data) == DOMAIN data = {"pub"}

Clients == Addresses

NoPayload ==
  [nonce |-> encodeBase64("n1"), box |-> encodeBase64(<<>>),
   senderPub |-> encodePublicKey(PublicKey(0)), createdAt |-> 0]

\* No call of a write adapter other than addMessage was made.
NoWrite == [kind |-> "none", flag |-> FALSE, status |-> "none", reported |-> "none"]

\* useState<UiPrivacy | null>(null): no privacy state yet.  flags is what
\* privacy?.x ?? true reads of it.
NullPrivacy == [loaded |-> FALSE, flags |-> <<TRUE, TRUE, TRUE>>]

\* No setPrivacy call of handlePrivacyChange was made.
NoPrivacyWrite ==
  [flags |-> <<TRUE, TRUE, TRUE>>, status |-> "none", reported |-> "none"]

\* A freshly loaded page holding the keypair k that generateKeyPair drew.
Loaded(k) ==
  [key |-> k, blockedInConversation |-> FALSE,
   send |-> "idle", plaintext |-> <<>>, payload |-> NoPayload, peerPk |-> 0,
   sconv |-> <<>>, op |-> 0, returned |-> -1, outcome |-> "none",
   write |-> NoWrite,
   privacy |-> NullPrivacy, pwrite |-> NoPrivacyWrite,
   view |-> "landing", accountEffect |-> FALSE, profile |-> FALSE,
   active |-> <<>>,
   messages |-> <<>>,
   recv |-> "idle", rconv |-> <<>>, lastIndex |-> 0, i |-> 1, fetched |-> <<>>]

SendOverStillSending(me, outcome) ==
  [me EXCEPT !.plaintext = <<>>, !.payload = NoPayload,
             !.peerPk = 0, !.sconv = <<>>, !.outcome = outcome]

\* The client once handleSend has returned: its locals are gone, and outcome
\* tells how it ended ("Delivered", or the alert and the error logged).
SendOver(me, outcome) ==
  [me EXCEPT !.send = "idle", !.plaintext = <<>>, !.payload = NoPayload,
             !.peerPk = 0, !.sconv = <<>>, !.op = 0, !.outcome = outcome]

\* The client once handleFetchMessages has returned.
RecvOver(me) ==
  [me EXCEPT !.recv = "idle", !.rconv = <<>>, !.lastIndex = 0, !.i = 1,
             !.fetched = <<>>]

InitChat ==
  /\ InitLedger
  /\ seal = SealIdle
  /\ pinned = <<>>
  /\ sealedFor = <<>>
  /\ ops = <<>>
  /\ clients = [c \in Clients |-> Loaded(IF c = <<"A">> THEN 1 ELSE 2)]

Peer(c) == CHOOSE d \in Clients : d # c

\* The conversation a handler works on: the active conversation's id, or
\* 'demo-conversation' when there is none.
ConvChoices(c) == {conversationIdFor(c, Peer(c)), DemoConvId}

IssuedKeys == { clients[c].key : c \in Clients }

NewestKey == CHOOSE k \in IssuedKeys : \A j \in IssuedKeys : j <= k

SendsStarted ==
  Len(pinned) + Cardinality({ c \in Clients : clients[c].send = "uploading" })

\* The texts a user can have put in the peer public key field: a public key
\* some page of the peer has shown, or a text that is no key.
PeerKeyTexts(c) ==
  { encodePublicKey(PublicKey(k)) : k \in (1..NewestKey) \ {clients[c].key} }
    \cup {NotBase64, NotAKey}

\* The texts a user can have typed in the message field.
MessageInputs == { <<"h", "i">>, <<" ", "é", " ">>, <<" ">> }

ChatUnchangedLedger ==
  UNCHANGED <<Storage, events, now, ret, appended, registered, claimed, seal, indexer>>

\* handleSend until it awaits the upload: the guards, the block check,
\* decodePublicKey and encryptMessage.  A throw is caught: alert, and the send
\* is over.
SendStart(c, convs, nonces) ==
  \E peerPublicKey \in PeerKeyTexts(c), messageInput \in MessageInputs,
     convId \in convs, nonce \in nonces :
    LET me        == clients[c]
        peerPk    == decodePublicKey(peerPublicKey)
        plaintext == trim(messageInput)
        enc == encryptMessage(plaintext, SecretKey(me.key), peerPk.data, nonce)
    IN /\ me.send = "idle"
       /\ SendsStarted < MaxSends
       /\ trim(messageInput) # <<>>
       /\ clients' =
            [clients EXCEPT ![c] =
               IF convId # DemoConvId /\ me.blockedInConversation
                 THEN SendOver(me, "Failed:blocked")
               ELSE IF ~peerPk.ok \/ ~IsPublicKey(peerPk.data)
                 THEN SendOver(me, "Failed:key")
                 ELSE [me EXCEPT !.send = "uploading", !.plaintext = plaintext,
                                 !.outcome = "none",
                                 !.peerPk = peerPk.data.pub, !.sconv = convId,
                                 !.payload =
                                   [nonce |-> enc.nonce, box |-> enc.box,
                                    senderPub |-> encodePublicKey(PublicKey(me.key)),
                                    createdAt |-> now]]]
       /\ UNCHANGED <<pinned, sealedFor, ops>>
       /\ ChatUnchangedLedger

\* uploadEncryptedPayload answers with the content id, and addMessage sends the
\* add_message operation.
UploadOk(c) ==
  LET me == clients[c]
  IN /\ me.send = "uploading"
     /\ pinned' = Append(pinned, me.payload)
     /\ sealedFor' = Append(sealedFor, [m |-> me.plaintext, from |-> me.key,
                                        to |-> me.peerPk])
     /\ ops' = Append(ops, [client |-> c, convId |-> me.sconv,
                            cid |-> CidOf(Len(pinned) + 1),
                            status |-> "pending", index |-> 0,
                            overlapped |-> \E o \in 1..Len(ops) :
                                              /\ ops[o].status = "pending"
                                              /\ ops[o].client # c
                                              /\ ops[o].convId = me.sconv])
     /\ clients' = [clients EXCEPT ![c] = [me EXCEPT !.send = "anchoring",
                                                     !.op = Len(ops) + 1]]
     /\ ChatUnchangedLedger

UploadFailStillAnchors(c) ==
  LET me == clients[c]
  IN /\ me.send = "uploading"
     /\ ops' = Append(ops, [client |-> c, convId |-> me.sconv, cid |-> <<>>,
                            status |-> "pending", index |-> 0,
                            overlapped |-> FALSE])
     /\ clients' = [clients EXCEPT ![c] = SendOver(me, "Failed:upload")]
     /\ UNCHANGED <<pinned, sealedFor>>
     /\ ChatUnchangedLedger

\* The proxy answers non-OK: uploadEncryptedPayload throws.
UploadFail(c) ==
  /\ clients[c].send = "uploading"
  /\ clients' = [clients EXCEPT ![c] = SendOver(clients[c], "Failed:upload")]
  /\ UNCHANGED <<pinned, sealedFor, ops>>
  /\ ChatUnchangedLedger

\* The ledger executes a pending add_message operation.
LedgerExecute(o) ==
  LET r == add_message(Storage, events, now, ops[o].convId, ops[o].cid)
  IN /\ ops[o].status = "pending"
     /\ Executed("add_message", ops[o].convId, ops[o].cid, r)
     /\ appended' = Counted(appended, ops[o].convId)
     /\ ops' = [ops EXCEPT ![o] = [@ EXCEPT !.status = "Success", !.index = r.value]]
     /\ UNCHANGED <<registered, claimed, seal, indexer, pinned, sealedFor, clients>>

\* The operation ends with a final status other than Success.
LedgerReject(o) ==
  /\ ops[o].status = "pending"
  /\ ops' = [ops EXCEPT ![o] = [@ EXCEPT !.status = "Error"]]
  /\ UNCHANGED <<pinned, sealedFor, clients>>
  /\ ChatUnchangedLedger

\* What the adapter's addMessage returns after a final Success.
AddMessageReturn(index) == 0

\* waitFinalExecution answers: addMessage returns or throws, and handleSend
\* appends the sent text to the list or alerts.
SendFinal(c) ==
  LET me == clients[c]
  IN /\ me.send = "anchoring"
     /\ ops[me.op].status # "pending"
     /\ clients' =
          [clients EXCEPT ![c] =
             IF ops[me.op].status = "Success"
               THEN [SendOver(me, "Delivered") EXCEPT
                       !.returned = AddMessageReturn(ops[me.op].index),
                       !.messages = Append(@, [text |-> me.plaintext,
                                               timestamp |-> now])]
               ELSE SendOver(me, "Failed:ledger")]
     /\ UNCHANGED <<pinned, sealedFor, ops>>
     /\ ChatUnchangedLedger

\* handleFetchMessages until its loop: getLastIndex.
RecvStart(c, convs) ==
  \E convId \in convs :
    /\ clients[c].recv = "idle"
    /\ clients' = [clients EXCEPT ![c] =
                     [@ EXCEPT !.recv = "scanning", !.rconv = convId,
                               !.lastIndex = get_last_index(Storage, convId),
                               !.i = 1, !.fetched = <<>>]]
    /\ UNCHANGED <<pinned, sealedFor, ops>>
    /\ ChatUnchangedLedger

\* One turn of the loop: getMessage, JSON.parse, fetchFromIPFS, decryptMessage.
\* A throw leaves the loop: alert, and the list stays as it was.
RecvStep(c) ==
  LET me      == clients[c]
      msgJson == get_message(Storage, me.rconv, me.i)
      parsed  == JsonParse(msgJson)
      got     == IF parsed.ok /\ <<"c", "i", "d">> \in DOMAIN parsed.obj
                   THEN fetchFromIPFS(pinned, parsed.obj[<<"c", "i", "d">>].s)
                   ELSE [ok |-> FALSE, payload |-> NoPayload]
      pub     == decodePublicKey(got.payload.senderPub)
      decrypted == decryptMessage(got.payload.nonce, got.payload.box, pub.data,
                                  SecretKey(me.key))
  IN /\ me.recv = "scanning"
     /\ me.i <= me.lastIndex
     /\ clients' =
          [clients EXCEPT ![c] =
             IF msgJson = <<>> THEN [me EXCEPT !.i = @ + 1]
             ELSE IF ~got.ok \/ ~pub.ok \/ decrypted.threw
               THEN RecvOver(me)
             ELSE [me EXCEPT !.i = @ + 1,
                             !.fetched =
                               Append(@, [text |-> RenderText(decrypted),
                                          timestamp |->
                                            parsed.obj[<<"t", "i", "m", "e", "s", "t", "a", "m", "p">>].n])]]
     /\ UNCHANGED <<pinned, sealedFor, ops>>
     /\ ChatUnchangedLedger

\* The gateway answers non-OK: fetchFromIPFS throws.
RecvFetchFail(c) ==
  /\ clients[c].recv = "scanning"
  /\ clients[c].i <= clients[c].lastIndex
  /\ get_message(Storage, clients[c].rconv, clients[c].i) # <<>>
  /\ clients' = [clients EXCEPT ![c] = RecvOver(clients[c])]
  /\ UNCHANGED <<pinned, sealedFor, ops>>
  /\ ChatUnchangedLedger

RecvDoneAppends(c) ==
  /\ clients[c].recv = "scanning"
  /\ clients[c].i > clients[c].lastIndex
  /\ clients' = [clients EXCEPT ![c] =
                   [RecvOver(clients[c]) EXCEPT
                      !.messages = clients[c].messages \o clients[c].fetched]]
  /\ UNCHANGED <<pinned, sealedFor, ops>>
  /\ ChatUnchangedLedger

\* The loop is over: setMessages(fetched).
RecvDone(c) ==
  /\ clients[c].recv = "scanning"
  /\ clients[c].i > clients[c].lastIndex
  /\ clients' = [clients EXCEPT ![c] =
                   [RecvOver(clients[c]) EXCEPT !.messages = clients[c].fetched]]
  /\ UNCHANGED <<pinned, sealedFor, ops>>
  /\ ChatUnchangedLedger

\* The page is loaded again: useState(generateKeyPair) draws a new keypair and
\* every handler of the old page is gone.
Reload(c) ==
  /\ NewestKey < MaxKeys
  /\ clients' = [clients EXCEPT ![c] = Loaded(NewestKey + 1)]
  /\ UNCHANGED <<pinned, sealedFor, ops>>
  /\ ChatUnchangedLedger

\* Both clients send, into either conversation; the ledger orders, executes or
\* rejects their operations.
NextAnchor ==
  \/ \E c \in Clients : SendStart(c, ConvChoices(c), Nonces)
  \/ \E c \in Clients : UploadOk(c)
  \/ \E c \in Clients : UploadFail(c)
  \/ \E o \in 1..Len(ops) : LedgerExecute(o)
  \/ \E o \in 1..Len(ops) : LedgerReject(o)
  \/ \E c \in Clients : SendFinal(c)

SpecAnchor == InitChat /\ [][NextAnchor]_vars

\* A sends into either conversation; B receives, while sends are under way or
\* not, and loads the page again under a new keypair.
NextChat ==
  \/ SendStart(<<"A">>, ConvChoices(<<"A">>), Nonces)
  \/ UploadOk(<<"A">>)
  \/ UploadFail(<<"A">>)
  \/ \E o \in 1..Len(ops) : LedgerExecute(o)
  \/ \E o \in 1..Len(ops) : LedgerReject(o)
  \/ SendFinal(<<"A">>)
  \/ \E c \in {<<"B">>} : RecvStart(c, ConvChoices(c))
  \/ \E c \in Clients : RecvStep(c)
  \/ \E c \in Clients : RecvFetchFail(c)
  \/ \E c \in Clients : RecvDone(c)
  \/ Reload(<<"B">>)

SpecChat == InitChat /\ [][NextChat]_vars

F_cid == <<"c", "i", "d">>

\* The content id in the message record the ledger holds at (convId, index).
CidAt(convId, index) == JsonParse(get_message(Storage, convId, index)).obj[F_cid].s

\* What was sealed into the payload anchored at (convId, index).
SealedAt(convId, index) ==
  sealedFor[CHOOSE k \in 1..Len(pinned) : CidOf(k) = CidAt(convId, index)]

C4_Fetched ==
  \A c \in Clients :
    LET me == clients[c]
    IN /\ me.recv = "scanning" => Len(me.fetched) = me.i - 1
       /\ \A j \in 1..Len(me.fetched) :
            me.fetched[j].text =
              IF SealedAt(me.rconv, j).to = me.key
                THEN SealedAt(me.rconv, j).m
                ELSE Marker

C4_Shown ==
  \A c \in Clients :
    ( /\ clients[c].recv = "scanning"
      /\ clients[c].i > clients[c].lastIndex
      /\ clients'[c].recv = "idle"
      /\ clients'[c].key = clients[c].key )
    => clients'[c].messages = clients[c].fetched

\* C4: a receive reads the conversation index by index, and its entry for an
\* index is exactly the plaintext sealed into the payload anchored there when
\* the receiving page holds the secret key of the public key it was sealed
\* for, and the undecryptable marker when it holds any other key; the list a
\* completed receive shows is the list it read.
C4_EndToEnd == []C4_Fetched /\ [][C4_Shown]_vars

\* B, on a page loaded after A's first message was sealed for B's earlier key,
\* has read the conversation of A and B: the marker at index 1, and at index 2
\* the text A sealed for the key B holds now.
C4_Witness ==
  LET b == clients[<<"B">>]
  IN /\ b.recv = "scanning"
     /\ b.i > b.lastIndex
     /\ b.rconv = conversationIdFor(<<"A">>, <<"B">>)
     /\ b.key = 3
     /\ Len(b.fetched) = 2
     /\ SealedAt(b.rconv, 1) = [m |-> <<"h", "i">>, from |-> 1, to |-> 2]
     /\ SealedAt(b.rconv, 2) = [m |-> <<"é">>, from |-> 1, to |-> 3]
     /\ b.fetched[1].text = Marker
     /\ b.fetched[2].text = <<"é">>

\* The operations the ledger executed in a conversation.
Anchored(convId) ==
  { o \in 1..Len(ops) : ops[o].status = "Success" /\ ops[o].convId = convId }

\* C5: the operations executed in one conversation hold distinct indices,
\* which are the consecutive 1..n, and the record at each one's index still
\* carries that operation's content id.
C5_NoCollision ==
  \A o \in 1..Len(ops) :
    ops[o].status = "Success" =>
      LET convId == ops[o].convId
      IN /\ { ops[q].index : q \in Anchored(convId) } = 1..Cardinality(Anchored(convId))
         /\ \A q \in Anchored(convId) : q # o => ops[q].index # ops[o].index
         /\ get_last_index(Storage, convId) = Cardinality(Anchored(convId))
         /\ CidAt(convId, ops[o].index) = ops[o].cid

\* A and B anchored into their conversation while the other's operation was
\* pending, and the ledger executed the later one first.
C5_Witness ==
  /\ Len(ops) = 2
  /\ ops[1].client # ops[2].client
  /\ ops[1].convId = conversationIdFor(<<"A">>, <<"B">>)
  /\ ops[2].convId = ops[1].convId
  /\ ops[2].overlapped
  /\ ops[1].status = "Success" /\ ops[1].index = 2
  /\ ops[2].status = "Success" /\ ops[2].index = 1
  /\ \A c \in Clients : clients[c].send = "anchoring"

\* C6: the value addMessage returns to its caller after a final Success is the
\* index the ledger gave the message.
C6_ReturnsIndex ==
  [][ \A c \in Clients :
        ( /\ clients[c].send = "anchoring"
          /\ clients'[c].send = "idle"
          /\ ops[clients[c].op].status = "Success" )
        => clients'[c].returned = ops[clients[c].op].index ]_vars

\* ------------------------------------------------------------------------
\* Block list: set_blocked over addresses, one of which contains the ':' that
\* blockKey uses as its delimiter, interleaved with other operations.
\* ------------------------------------------------------------------------

BlockAddresses == { <<"A">>, <<"B">>, <<"A", ":", "A">> }

NextBlock ==
  \/ SetBlocked(BlockAddresses, BlockAddresses)
  \/ SetPrivacy({<<"A">>}, {<<TRUE, FALSE, TRUE>>})
  \/ TouchLastSeen({<<"A">>})

SpecBlock == InitContract /\ [][NextBlock]_vars

\* 'block:set:' opens the event of set_blocked(., ., true).
IsBlockSetEvent(e) ==
  /\ Len(e) >= 10
  /\ SubSeq(e, 1, 10) = <<"b", "l", "o", "c", "k", ":", "s", "e", "t", ":">>

\* The step is a set_blocked call; its event tells the flag it was given.
BlockCall == ret'.op = "set_blocked" /\ Len(events') = Len(events) + 1

C11_Step ==
  /\ BlockCall =>
       is_blocked(Storage', ret'.a, ret'.b) = IsBlockSetEvent(events'[Len(events')])
  /\ \A owner, target \in BlockAddresses :
       is_blocked(Storage', owner, target) # is_blocked(Storage, owner, target)
         => BlockCall /\ ret'.a = owner /\ ret'.b = target

\* C11: no pair is blocked at the start; set_blocked(owner, target, flag)
\* leaves is_blocked(owner, target) = flag, whatever it was before; and
\* is_blocked of a pair changes in no step but a set_blocked call on that very
\* pair, so a call on (owner, target) leaves (target, owner) as it was.
C11_BlockPerDirection ==
  /\ \A owner, target \in BlockAddresses : ~is_blocked(Storage, owner, target)
  /\ [][C11_Step]_vars

\* ------------------------------------------------------------------------
\* Privacy settings: set_privacy with every combination of flags for two
\* addresses, read back as the client reads them.
\* ------------------------------------------------------------------------

PrivacyFlags == { <<a, b, c>> : a \in BOOLEAN, b \in BOOLEAN, c \in BOOLEAN }

NextPrivacy ==
  \/ SetPrivacy(Addresses, PrivacyFlags)
  \/ SetBlocked({<<"A">>}, {<<"B">>})
  \/ TouchLastSeen({<<"A">>})
  \/ RegisterProfile({<<"A">>}, {<<"b", "o">>}, {<<>>}, {<<>>}, {<<>>})

SpecPrivacy == InitContract /\ [][NextPrivacy]_vars

\* !!raw[field] on the parsed privacy object.
Truthy(obj, field) ==
  /\ field \in DOMAIN obj
  /\ \/ obj[field].t = "boolean" /\ obj[field].n = 1
     \/ obj[field].t = "number" /\ obj[field].n # 0
     \/ obj[field].t = "string" /\ obj[field].s # <<>>

\* The adapter's getPrivacy: the three flags, or null (ok false) when nothing
\* is stored or the stored text does not parse.
getPrivacy(S, address) ==
  LET json == get_privacy(S, address)
      raw  == JsonParse(json)
  IN IF json = <<>> \/ ~raw.ok THEN [ok |-> FALSE, flags |-> <<FALSE, FALSE, FALSE>>]
     ELSE [ok |-> TRUE,
           flags |-> << Truthy(raw.obj, <<"s", "h", "o", "w", "L", "a", "s", "t", "S", "e", "e", "n">>),
                        Truthy(raw.obj, <<"s", "h", "o", "w", "P", "r", "o", "f", "i", "l", "e", "P", "h", "o", "t", "o">>),
                        Truthy(raw.obj, <<"s", "h", "o", "w", "B", "i", "o">>) >>]

\* priv ?? { showLastSeen: true, showProfilePhoto: true, showBio: true }
ObservedPrivacy(S, address) ==
  IF getPrivacy(S, address).ok THEN getPrivacy(S, address).flags
  ELSE <<TRUE, TRUE, TRUE>>

\* The step is a set_privacy call.
PrivacyCall == ret'.op = "set_privacy" /\ Len(events') = Len(events) + 1

C12_Step ==
  /\ PrivacyCall => ObservedPrivacy(Storage', ret'.a) = ret'.b
  /\ \A a \in Addresses :
       ObservedPrivacy(Storage', a) # ObservedPrivacy(Storage, a)
         => PrivacyCall /\ ret'.a = a

\* C12: at the start the client observes all three flags true for every
\* address; after set_privacy(a, f) it observes exactly f for a; and what it
\* observes for an address changes in no step but a set_privacy call for that
\* address.
C12_PrivacyReadBack ==
  /\ \A a \in Addresses : ObservedPrivacy(Storage, a) = <<TRUE, TRUE, TRUE>>
  /\ [][C12_Step]_vars

\* A's flags were written and read back as written, while B, never written,
\* still reads all-true.
C12_Witness ==
  /\ ret.op = "set_privacy"
  /\ ret.a = <<"A">>
  /\ ret.b = <<FALSE, TRUE, FALSE>>
  /\ Len(events) = 2
  /\ ObservedPrivacy(Storage, <<"A">>) = <<FALSE, TRUE, FALSE>>
  /\ get_privacy(Storage, <<"B">>) = <<>>
  /\ ObservedPrivacy(Storage, <<"B">>) = <<TRUE, TRUE, TRUE>>

\* ------------------------------------------------------------------------
\* Last seen: touch_last_seen by two addresses while the ledger clock advances
\* from a one-digit to a two-digit timestamp.
\* ------------------------------------------------------------------------

NextLastSeen ==
  \/ Tick(MaxTime)
  \/ TouchLastSeen(Addresses)
  \/ SetPrivacy({<<"A">>}, {<<TRUE, FALSE, TRUE>>})
  \/ SetBlocked({<<"A">>}, {<<"B">>})
  \/ AddMessage({<<"c">>}, {<<"Q", "1">>})

SpecLastSeen == InitContract /\ [][NextLastSeen]_vars

\* The step is a touch_last_seen call (it emits no event; the clock stands
\* still while a call executes).
TouchCall == ret'.op = "touch_last_seen" /\ now' = now

C13_Step ==
  /\ TouchCall => get_last_seen(Storage', ret'.a) = now'
  /\ \A a \in Addresses :
       /\ get_last_seen(Storage', a) >= get_last_seen(Storage, a)
       /\ get_last_seen(Storage', a) # get_last_seen(Storage, a)
            => TouchCall /\ ret'.a = a

\* C13: get_last_seen is 0 for every address at the start; touch_last_seen(a)
\* sets it to the ledger timestamp of the call; it never decreases; and it
\* changes for an address in no step but a touch_last_seen call for that
\* address.
C13_LastSeen ==
  /\ \A a \in Addresses : get_last_seen(Storage, a) = 0
  /\ [][C13_Step]_vars

\* A was touched at the latest timestamp, B at the earliest.
C13_Witness ==
  /\ ret.op = "touch_last_seen"
  /\ ret.a = <<"A">>
  /\ now = MaxTime
  /\ get_last_seen(Storage, <<"A">>) = MaxTime
  /\ get_last_seen(Storage, <<"B">>) = StartTime

\* ------------------------------------------------------------------------
\* Conversation ids: conversationIdFor over address strings, two of which
\* contain the '-' that it uses as its delimiter, and appends into the
\* conversations it names.
\* ------------------------------------------------------------------------

ConvAddresses ==
  { <<"A">>, <<"B">>, <<"C">>, <<"A", "-", "B">>, <<"B", "-", "C">> }

\* The conversations of A.
PairConvIds == { conversationIdFor(<<"A">>, b) : b \in ConvAddresses }

\* A client computes the conversation id of two addresses.
ConversationId ==
  \E a, b \in ConvAddresses :
    /\ ret' = [op |-> "conversationIdFor", a |-> a, b |-> b, ok |-> TRUE,
               value |-> conversationIdFor(a, b)]
    /\ UNCHANGED <<Storage, events, now, appended, registered, claimed>>
    /\ UNCHANGED <<seal, indexer, pinned, sealedFor, ops, clients>>

NextConv ==
  \/ ConversationId
  \/ AddMessage(PairConvIds, {<<"Q", "1">>})

SpecConv == InitContract /\ [][NextConv]_vars

\* C14: the id computed for (a, b), in whatever state of the ledger, is the id
\* of (b, a).
C14_Symmetric ==
  ret.op = "conversationIdFor" => ret.value = conversationIdFor(ret.b, ret.a)

\* The id of (B, A), whose addresses the sort swaps, computed after appends.
C14_Witness ==
  /\ ret.op = "conversationIdFor"
  /\ ret.a = <<"B">>
  /\ ret.b = <<"A">>
  /\ ret.value = <<"c", "o", "n", "v", "-", "A", "-", "B">>
  /\ Len(events) > 0

\* C15: the id computed for a pair of addresses is the id of no other
\* unordered pair.
C15_CollisionFree ==
  ret.op = "conversationIdFor" =>
    \A c, d \in ConvAddresses :
      conversationIdFor(c, d) = ret.value => {c, d} = {ret.a, ret.b}

\* The steps on which the upload of c's send fails.
UploadFailed(c) ==
  /\ clients[c].send = "uploading"
  /\ clients'[c].send = "idle"
  /\ clients'[c].outcome = "Failed:upload"

C16_Step ==
  \A c \in Clients :
    /\ ( clients[c].send = "uploading" /\ clients'[c].send = "idle" )
         => UploadFailed(c)
    /\ UploadFailed(c) =>
         /\ ops' = ops
         /\ pinned' = pinned
         /\ Storage' = Storage
         /\ \A convId \in ConvChoices(c) :
              get_last_index(Storage', convId) = get_last_index(Storage, convId)
         /\ clients'[c].messages = clients[c].messages

\* Every add_message operation sent carries the content id of the payload one
\* answered upload pinned, and a send that failed has no operation of its own.
C16_Anchored ==
  /\ Len(ops) = Len(pinned)
  /\ \A o \in 1..Len(ops) : ops[o].cid = CidOf(o)
  /\ \A c \in Clients : clients[c].outcome # "none" => clients[c].op = 0

\* C16: a send leaves the upload only for the failed end when the upload does
\* not answer OK, and that step sends no add_message operation, pins nothing,
\* leaves the ledger (hence get_last_index of the conversation) as it was and
\* adds nothing to the displayed list; every operation ever sent belongs to
\* an upload that answered.
C16_UploadFailure == []C16_Anchored /\ [][C16_Step]_vars

\* A's first send failed at the upload: nothing is pinned, no operation was
\* sent, the ledger holds no message and A's list is empty.
C16_Witness ==
  /\ clients[<<"A">>].outcome = "Failed:upload"
  /\ clients[<<"A">>].send = "idle"
  /\ clients[<<"A">>].messages = <<>>
  /\ pinned = <<>>
  /\ ops = <<>>
  /\ \A convId \in ConvChoices(<<"A">>) : get_last_index(Storage, convId) = 0

\* handleToggleBlock in the conversation of c and its peer: setBlocked with the
\* opposite of the flag the view holds, then isBlocked, whose answer becomes
\* the flag.
ToggleBlock(c) ==
  LET r == set_blocked(Storage, events, c, Peer(c),
                       ~clients[c].blockedInConversation)
  IN /\ Len(events) < MaxEvents
     /\ Executed("set_blocked", c, Peer(c), r)
     /\ clients' = [clients EXCEPT ![c] =
                      [@ EXCEPT !.blockedInConversation =
                                  is_blocked(r.Storage, c, Peer(c))]]
     /\ UNCHANGED <<appended, registered, claimed, seal, indexer, pinned, sealedFor, ops>>

\* The view is no longer the chat: the effect clears the active conversation
\* and the flag.  Opening the conversation again sets no flag.
LeaveChat(c) ==
  /\ clients[c].blockedInConversation
  /\ clients' = [clients EXCEPT ![c] = [@ EXCEPT !.blockedInConversation = FALSE]]
  /\ UNCHANGED <<pinned, sealedFor, ops>>
  /\ ChatUnchangedLedger

\* A blocks and unblocks B, leaves and opens the conversation, loads the page
\* again, and sends.
NextBlockSend ==
  \/ ToggleBlock(<<"A">>)
  \/ LeaveChat(<<"A">>)
  \/ Reload(<<"A">>)
  \/ SendStart(<<"A">>, ConvChoices(<<"A">>), {"n1"})
  \/ UploadOk(<<"A">>)
  \/ UploadFail(<<"A">>)
  \/ \E o \in 1..Len(ops) : LedgerExecute(o)
  \/ \E o \in 1..Len(ops) : LedgerReject(o)
  \/ SendFinal(<<"A">>)

SpecBlockSend == InitChat /\ [][NextBlockSend]_vars

\* C17: while is_blocked(sender, peer) holds on the ledger, no send of the
\* sender in the conversation with that peer gets to the upload, so nothing is
\* uploaded or anchored for it.
C17_BlockedSendDenied ==
  [][ \A c \in Clients :
        ( /\ is_blocked(Storage, c, Peer(c))
          /\ clients[c].send = "idle" )
        => ~( /\ clients'[c].send = "uploading"
              /\ clients'[c].sconv = conversationIdFor(c, Peer(c)) ) ]_vars

\* The same for a block the view that sends has set itself.
C17_BlockedInView ==
  [][ \A c \in Clients :
        ( /\ clients[c].blockedInConversation
          /\ clients[c].send = "idle" )
        => ~( /\ clients'[c].send = "uploading"
              /\ clients'[c].sconv = conversationIdFor(c, Peer(c)) ) ]_vars

F_timestamp == <<"t", "i", "m", "e", "s", "t", "a", "m", "p">>

\* The indices up to n of a conversation at which the ledger holds a record.
NonEmptyUpTo(convId, n) ==
  { k \in 1..n : get_message(Storage, convId, k) # <<>> }

\* The steps on which c's receive completes.
RecvCompletes(c) ==
  /\ clients[c].recv = "scanning"
  /\ clients[c].i > clients[c].lastIndex
  /\ clients'[c].recv = "idle"
  /\ clients'[c].key = clients[c].key

C18_Scan ==
  /\ \A convId \in ConvChoices(<<"A">>) :
       NonEmptyUpTo(convId, get_last_index(Storage, convId))
         = 1..get_last_index(Storage, convId)
  /\ \A c \in Clients :
       LET me == clients[c]
       IN me.recv = "scanning" =>
            /\ me.lastIndex <= get_last_index(Storage, me.rconv)
            /\ Len(me.fetched) = Cardinality(NonEmptyUpTo(me.rconv, me.i - 1))
            /\ \A j \in 1..Len(me.fetched) :
                 /\ me.fetched[j].timestamp =
                      JsonParse(get_message(Storage, me.rconv, j)).obj[F_timestamp].n
                 /\ me.fetched[j].text \in {Marker, SealedAt(me.rconv, j).m}

C18_Completes ==
  \A c \in Clients :
    RecvCompletes(c) =>
      /\ clients'[c].messages = clients[c].fetched
      /\ Len(clients'[c].messages) = clients[c].lastIndex

\* C18 (as amended): a receive that completes shows one entry per ledger
\* message of the conversation up to the last index it read when it started,
\* in ascending index order, a message it cannot open showing as the marker;
\* the ledger holds a record at every index up to its last index, so no scan
\* meets an empty one.
C18_ListAsOfStart == []C18_Scan /\ [][C18_Completes]_vars

\* C18 (as stated): when a receive completes, the length of the list it shows
\* equals the ledger's message count of the conversation.
C18_ListMatchesLedger ==
  [][ \A c \in Clients :
        RecvCompletes(c) =>
          Len(clients'[c].messages) = get_last_index(Storage', clients[c].rconv)
    ]_vars

\* B has completed a receive of the conversation of A and B that holds two
\* messages: its list is the marker, for the message sealed for the key of
\* B's earlier page, and the text of the second.
C18_Witness ==
  LET b == clients[<<"B">>]
      convId == conversationIdFor(<<"A">>, <<"B">>)
  IN /\ b.recv = "idle"
     /\ get_last_index(Storage, convId) = 2
     /\ Len(b.messages) = 2
     /\ b.messages[1].text = Marker
     /\ b.messages[2].text = <<"h", "i">>
     /\ b.messages[1].timestamp =
          JsonParse(get_message(Storage, convId, 1)).obj[F_timestamp].n

\* Payloads that a party other than the two clients can pin: a box sealed
\* between two keys neither client holds, a box whose ciphertext was altered
\* (it authenticates under no key), a nonce that is no base64, and a sender
\* key that is no base64.
ForeignPayloads ==
  LET sealed == encryptMessage(<<"h", "i">>, SecretKey(8), PublicKey(9), "n1")
      good   == [nonce |-> sealed.nonce, box |-> sealed.box,
                 senderPub |-> encodePublicKey(PublicKey(8)), createdAt |-> 0]
  IN { good,
       [good EXCEPT !.box = encodeBase64([key |-> {}, nonce |-> "n1",
                                          msg |-> decodeUTF8(<<"h", "i">>)])],
       [good EXCEPT !.nonce.b64 = FALSE],
       [good EXCEPT !.senderPub.b64 = FALSE] }

\* Another party pins a payload and anchors its content id in a conversation:
\* add_message takes any conversation id and content id from any caller.
ForeignAnchor(convs, payloads) ==
  \E convId \in convs, payload \in payloads :
    LET cid == CidOf(Len(pinned) + 1)
        r   == add_message(Storage, events, now, convId, cid)
    IN /\ SendsStarted < MaxSends
       /\ pinned' = Append(pinned, payload)
       /\ sealedFor' = Append(sealedFor, [m |-> <<>>, from |-> 0, to |-> 0])
       /\ Executed("add_message", convId, cid, r)
       /\ appended' = Counted(appended, convId)
       /\ UNCHANGED <<registered, claimed, seal, indexer, ops, clients>>

\* A sends to B and another party anchors its payloads in their
\* conversation; B receives, with a gateway that answers every fetch.
NextRecv ==
  \/ SendStart(<<"A">>, {conversationIdFor(<<"A">>, <<"B">>)}, {"n1"})
  \/ UploadOk(<<"A">>)
  \/ \E o \in 1..Len(ops) : LedgerExecute(o)
  \/ SendFinal(<<"A">>)
  \/ ForeignAnchor({conversationIdFor(<<"A">>, <<"B">>)}, ForeignPayloads)
  \/ RecvStart(<<"B">>, {conversationIdFor(<<"A">>, <<"B">>)})
  \/ RecvStep(<<"B">>)
  \/ RecvDone(<<"B">>)

SpecRecv == InitChat /\ [][NextRecv]_vars

\* C19: whatever the payload anchored at the index a receive is at, the
\* receive goes on to the next index with one more entry in its list (the
\* text, or the marker at a bad one), so it completes with every index of the
\* conversation.
C19_NeverAborts ==
  [][ \A c \in Clients :
        ( /\ clients[c].recv = "scanning"
          /\ clients[c].i <= clients[c].lastIndex
          /\ clients'[c] # clients[c] )
        => /\ clients'[c].recv = "scanning"
           /\ clients'[c].i = clients[c].i + 1
           /\ Len(clients'[c].fetched) = Len(clients[c].fetched) + 1 ]_vars

\* ------------------------------------------------------------------------
\* Write adapters: registerProfile, setPrivacy, setBlocked and touchLastSeen
\* called by B while A sends (addMessage).  Each sends its operation, awaits
\* waitFinalExecution and returns or throws on the status.
\* ------------------------------------------------------------------------

WriteKinds == {"register_profile", "set_privacy", "set_blocked", "touch_last_seen"}

\* c calls a write adapter: contract.call sends the operation.  flag is the
\* boolean argument of set_blocked, the three flags of set_privacy, and for
\* register_profile whether the username field is filled in.
WriteCall(c, kinds) ==
  \E kind \in kinds, flag \in BOOLEAN :
    /\ clients[c].write.reported # "waiting"
    /\ Len(events) < MaxEvents
    /\ clients' = [clients EXCEPT ![c] =
                     [@ EXCEPT !.write = [kind |-> kind, flag |-> flag,
                                          status |-> "pending",
                                          reported |-> "waiting"]]]
    /\ UNCHANGED <<pinned, sealedFor, ops>>
    /\ ChatUnchangedLedger

\* What the contract does with the operation c has pending.
WriteResult(c) ==
  LET w == clients[c].write
  IN CASE w.kind = "register_profile" ->
            register_profile(Storage, events, now, c,
                             IF w.flag THEN <<"b", "o">> ELSE <<>>,
                             <<>>, <<>>, <<>>)
       [] w.kind = "set_privacy" ->
            set_privacy(Storage, events, c, w.flag, w.flag, w.flag)
       [] w.kind = "set_blocked" ->
            set_blocked(Storage, events, c, Peer(c), w.flag)
       [] OTHER -> touch_last_seen(Storage, events, now, c)

\* The ledger executes the operation: final status Success, or Error when the
\* contract call aborts.
WriteExecute(c) ==
  LET w == clients[c].write
      r == WriteResult(c)
  IN /\ w.status = "pending"
     /\ Executed(w.kind, c, <<>>, r)
     /\ registered' =
          IF w.kind = "register_profile" /\ r.ok
            THEN [registered EXCEPT ![c] = <<IF @[1] = 0 THEN now ELSE @[1], now>>]
            ELSE registered
     /\ claimed' =
          IF w.kind = "register_profile" /\ r.ok
            THEN claimed \cup {<<c, <<"b", "o">> >>}
            ELSE claimed
     /\ clients' = [clients EXCEPT ![c] =
                      [@ EXCEPT !.write.status = IF r.ok THEN "Success" ELSE "Error"]]
     /\ UNCHANGED <<appended, seal, indexer, pinned, sealedFor, ops>>

\* The operation ends with a final status other than Success without having
\* been executed.
WriteReject(c) ==
  /\ clients[c].write.status = "pending"
  /\ clients' = [clients EXCEPT ![c] = [@ EXCEPT !.write.status = "Error"]]
  /\ UNCHANGED <<pinned, sealedFor, ops>>
  /\ ChatUnchangedLedger

WriteReturnEarly(c) ==
  /\ clients[c].write.reported = "waiting"
  /\ clients' = [clients EXCEPT ![c] = [@ EXCEPT !.write.reported = "returned"]]
  /\ UNCHANGED <<pinned, sealedFor, ops>>
  /\ ChatUnchangedLedger

\* waitFinalExecution answers: the adapter returns on Success and throws on
\* any other status.
WriteReturn(c) ==
  LET w == clients[c].write
  IN /\ w.reported = "waiting"
     /\ w.status # "pending"
     /\ clients' = [clients EXCEPT ![c] =
                      [@ EXCEPT !.write.reported =
                                  IF w.status = "Success" THEN "returned"
                                  ELSE "threw"]]
     /\ UNCHANGED <<pinned, sealedFor, ops>>
     /\ ChatUnchangedLedger

NextWrite ==
  \/ SendStart(<<"A">>, {conversationIdFor(<<"A">>, <<"B">>)}, {"n1"})
  \/ UploadOk(<<"A">>)
  \/ \E o \in 1..Len(ops) : LedgerExecute(o)
  \/ \E o \in 1..Len(ops) : LedgerReject(o)
  \/ SendFinal(<<"A">>)
  \/ WriteCall(<<"B">>, WriteKinds)
  \/ WriteExecute(<<"B">>)
  \/ WriteReject(<<"B">>)
  \/ WriteReturn(<<"B">>)

SpecWrite == InitChat /\ [][NextWrite]_vars

C20_Reported ==
  \A c \in Clients :
    LET w == clients[c].write
    IN /\ w.reported = "returned" => w.status = "Success"
       /\ w.reported = "threw" => w.status = "Error"
       /\ w.status = "pending" => w.reported = "waiting"

C20_Step ==
  \A c \in Clients :
    LET me == clients[c]
    IN /\ me.write.reported = "waiting" /\ clients'[c].write.reported # "waiting"
            => /\ me.write.status # "pending"
               /\ clients'[c].write.status = me.write.status
       /\ ( \/ clients'[c].messages # me.messages
            \/ clients'[c].outcome = "Delivered" /\ me.outcome # "Delivered" )
            => /\ me.send = "anchoring"
               /\ ops[me.op].status = "Success"
               /\ clients'[c].outcome = "Delivered"
               /\ clients'[c].messages =
                    Append(me.messages, [text |-> me.plaintext, timestamp |-> now])
       /\ me.send = "anchoring" /\ ops[me.op].status = "pending"
            => clients'[c].send = "anchoring"
       /\ ( /\ me.send = "anchoring"
            /\ clients'[c].send = "idle"
            /\ ops[me.op].status # "Success" )
            => /\ clients'[c].outcome = "Failed:ledger"
               /\ clients'[c].messages = me.messages

\* C20: a write adapter has returned only when its operation's final status
\* is Success and has thrown only when it is another final status, and it
\* answers in no step before the status is final; a send is appended to the
\* list and ends Delivered only in a step in which its add_message operation
\* already has final status Success, and with any other final status it ends
\* Failed with the list as it was.
C20_SuccessOnlyAfterFinal == []C20_Reported /\ [][C20_Step]_vars

\* A's send was delivered after its operation ended Success, and B's
\* registerProfile threw after the contract aborted the call (empty username).
C20_Witness ==
  /\ clients[<<"A">>].outcome = "Delivered"
  /\ Len(clients[<<"A">>].messages) = 1
  /\ ops[1].status = "Success"
  /\ clients[<<"B">>].write.kind = "register_profile"
  /\ clients[<<"B">>].write.status = "Error"
  /\ clients[<<"B">>].write.reported = "threw"
  /\ ret.op = "register_profile" /\ ~ret.ok

\* ------------------------------------------------------------------------
\* Waiting for final execution: the wait itself can fail.
\* ------------------------------------------------------------------------

\* waitFinalExecution rejects (the node cannot be reached) or answers, when
\* its waiting time is over, a status that is not Success while the operation
\* is still pending: addMessage throws, and the operation stays with the
\* ledger.
WaitFails(c) ==
  LET me == clients[c]
  IN /\ me.send = "anchoring"
     /\ ops[me.op].status = "pending"
     /\ clients' = [clients EXCEPT ![c] = SendOver(me, "Failed:ledger")]
     /\ UNCHANGED <<pinned, sealedFor, ops>>
     /\ ChatUnchangedLedger

\* A sends to B; the ledger executes or rejects the operations, before or
\* after the wait for them has ended.
NextWait ==
  \/ SendStart(<<"A">>, ConvChoices(<<"A">>), Nonces)
  \/ UploadOk(<<"A">>)
  \/ UploadFail(<<"A">>)
  \/ \E o \in 1..Len(ops) : LedgerExecute(o)
  \/ \E o \in 1..Len(ops) : LedgerReject(o)
  \/ SendFinal(<<"A">>)
  \/ WaitFails(<<"A">>)

SpecWait == InitChat /\ [][NextWait]_vars

\* C21: in the step in which addMessage throws, its operation has a final
\* status that is not Success, and an operation with such a status keeps it:
\* no message is ever appended for an attempt that reported an error.
C21_ErrorMeansNotFinalized ==
  [][ /\ \A c \in Clients :
           ( /\ clients[c].send = "anchoring"
             /\ clients'[c].send = "idle"
             /\ clients'[c].outcome = "Failed:ledger" )
           => ops[clients[c].op].status = "Error"
      /\ \A o \in 1..Len(ops) :
           ops[o].status = "Error" => ops'[o].status = "Error" ]_vars

\* ------------------------------------------------------------------------
\* What leaves the client: the payloads pinned and the records on the ledger.
\* ------------------------------------------------------------------------

\* The key ids of the clients' pages and of one party that is neither.
AnyKeyIds == 0..(MaxKeys + 1)

\* The k-th payload pinned has the four members handleSend gives it; its
\* nonce and sender key are the nonce drawn and the public half of the
\* sender's keypair; and its box opens under no pair of keys but the sender's
\* and the recipient's.
C22_PayloadSealed(k) ==
  LET payload == pinned[k]
      nonce   == decodeBase64(payload.nonce)
      boxed   == decodeBase64(payload.box)
      pub     == decodePublicKey(payload.senderPub)
  IN /\ DOMAIN payload = {"nonce", "box", "senderPub", "createdAt"}
     /\ nonce.ok /\ nonce.data \in Nonces
     /\ pub.ok /\ pub.data = PublicKey(sealedFor[k].from)
     /\ payload.createdAt \in Nat
     /\ boxed.ok
     /\ \A j, q \in AnyKeyIds :
          naclBoxOpen(boxed.data, nonce.data, PublicKey(j), SecretKey(q)).ok
            => {j, q} = {sealedFor[k].from, sealedFor[k].to}

\* The record of an executed operation has the members cid and timestamp and
\* no other, and the text of no message sent occurs in it.
C22_RecordBare(o) ==
  LET text   == get_message(Storage, ops[o].convId, ops[o].index)
      parsed == JsonParse(text)
  IN /\ parsed.ok
     /\ DOMAIN parsed.obj = {F_cid, F_timestamp}
     /\ parsed.obj[F_cid].s = ops[o].cid
     /\ \A k \in 1..Len(sealedFor) : indexOf(text, sealedFor[k].m) = -1

\* C22: every payload pinned consists of nonce, box, the sender's public key
\* and createdAt, with the plaintext only inside a box that opens under the
\* two parties' keys alone, and every ledger message record consists of cid
\* and timestamp: neither holds a secret key or a plaintext.
C22_NothingConfidentialLeaves ==
  /\ \A k \in 1..Len(pinned) : C22_PayloadSealed(k)
  /\ \A o \in 1..Len(ops) : ops[o].status = "Success" => C22_RecordBare(o)

\* Both clients have sent: two payloads are pinned and both are anchored in
\* the conversation of A and B.
C22_Witness ==
  /\ Len(pinned) = 2
  /\ sealedFor[1].m = <<"h", "i">>
  /\ sealedFor[1].from # sealedFor[2].from
  /\ \A o \in 1..2 : /\ ops[o].status = "Success"
                       /\ ops[o].convId = conversationIdFor(<<"A">>, <<"B">>)

\* ------------------------------------------------------------------------
\* Composing: handleSend called with a message field that may be empty.
\* ------------------------------------------------------------------------

\* handleSend returns at `if (!messageInput.trim()) return`: nothing is set,
\* not even isSending; outcome notes that the call ended there.
SendRejected(c, inputs) ==
  \E messageInput \in inputs :
    /\ clients[c].send = "idle"
    /\ trim(messageInput) = <<>>
    /\ clients' = [clients EXCEPT ![c] = SendOver(clients[c], "Rejected:empty")]
    /\ UNCHANGED <<pinned, sealedFor, ops>>
    /\ ChatUnchangedLedger

NextCompose ==
  \/ SendRejected(<<"A">>, MessageInputs \cup {<<>>})
  \/ SendStart(<<"A">>, ConvChoices(<<"A">>), {"n1"})
  \/ UploadOk(<<"A">>)
  \/ UploadFail(<<"A">>)
  \/ \E o \in 1..Len(ops) : LedgerExecute(o)
  \/ \E o \in 1..Len(ops) : LedgerReject(o)
  \/ SendFinal(<<"A">>)

SpecCompose == InitChat /\ [][NextCompose]_vars

\* A text with nothing in it but whitespace.
IsBlank(str) == \A i \in 1..Len(str) : str[i] = " "

C23_NoBlankSend ==
  /\ \A k \in 1..Len(sealedFor) : ~IsBlank(sealedFor[k].m)
  /\ \A c \in Clients : clients[c].send # "idle" => ~IsBlank(clients[c].plaintext)
  /\ \A c \in Clients :
       \A j \in 1..Len(clients[c].messages) : ~IsBlank(clients[c].messages[j].text)

C23_Step ==
  \A c \in Clients :
    ( clients'[c].outcome = "Rejected:empty" /\ clients'[c] # clients[c] )
    => /\ clients[c].send = "idle" /\ clients'[c].send = "idle"
       /\ clients'[c].messages = clients[c].messages
       /\ <<pinned, sealedFor, ops, Storage, events>>' =
            <<pinned, sealedFor, ops, Storage, events>>

\* C23: a send whose text is empty after trimming ends where it began, with
\* nothing sealed, pinned or sent to the ledger and the list and ledger as
\* they were; no text sealed, in flight or listed as sent is blank.
C23_EmptyRejected == []C23_NoBlankSend /\ [][C23_Step]_vars

\* After a delivered message, a send of whitespace was rejected: one payload,
\* one operation, one entry in the list.
C23_Witness ==
  /\ clients[<<"A">>].outcome = "Rejected:empty"
  /\ clients[<<"A">>].send = "idle"
  /\ Len(clients[<<"A">>].messages) = 1
  /\ Len(pinned) = 1
  /\ Len(ops) = 1 /\ ops[1].status = "Success"

\* ------------------------------------------------------------------------
\* Append-only conversations
\* ------------------------------------------------------------------------

C25_Step ==
  \A c \in ConvIds :
    /\ get_last_index(Storage', c) >= get_last_index(Storage, c)
    /\ \A i \in 1..(MaxEvents + 2) :
         get_message(Storage, c, i) # <<>>
           => get_message(Storage', c, i) = get_message(Storage, c, i)

\* C25: no step of the ledger, an append to this or another conversation or
\* a profile, privacy, block or last-seen operation, changes or removes a
\* message record that is stored, or lowers get_last_index of a conversation.
C25_AppendOnly == [][C25_Step]_vars

\* The first record of a conversation, stored at the earliest timestamp, is
\* still there after a second append at the latest timestamp and a block
\* operation.
C25_Witness ==
  \E c \in ConvIds :
    /\ get_last_index(Storage, c) = 2
    /\ JsonParse(get_message(Storage, c, 1)).obj[F_timestamp].n = StartTime
    /\ JsonParse(get_message(Storage, c, 2)).obj[F_timestamp].n = MaxTime
    /\ ret.op = "set_blocked"

\* ------------------------------------------------------------------------
\* The course of a send, with awaits that are answered in the end.
\* ------------------------------------------------------------------------

NextSend ==
  \/ \E c \in Clients : SendStart(c, ConvChoices(c), Nonces)
  \/ \E c \in Clients : UploadOk(c)
  \/ \E c \in Clients : UploadFail(c)
  \/ \E o \in 1..Len(ops) : LedgerExecute(o)
  \/ \E o \in 1..Len(ops) : LedgerReject(o)
  \/ \E c \in Clients : SendFinal(c)
  \/ \E c \in Clients : WaitFails(c)

\* The upload request is answered, OK or not, and the wait for final
\* execution ends, with a status or by giving up.
LiveSend ==
  /\ InitChat
  /\ [][NextSend]_vars
  /\ \A c \in Clients : WF_vars(UploadOk(c) \/ UploadFail(c))
  /\ \A c \in Clients : WF_vars(SendFinal(c) \/ WaitFails(c))

\* isSending: set after the guards, cleared in the finally block.
isSending(c) == clients[c].send # "idle"

SendEnds == {"Delivered", "Failed:key", "Failed:blocked", "Failed:upload", "Failed:ledger"}

C26_Stages ==
  \A c \in Clients :
    /\ clients[c].send \in {"idle", "uploading", "anchoring"}
    /\ isSending(c) <=> clients[c].outcome = "none" /\ clients[c].plaintext # <<>>
    /\ ~isSending(c) => clients[c].outcome \in SendEnds \cup {"none"}
    /\ clients[c].send = "anchoring" =>
         /\ clients[c].op \in 1..Len(ops)
         /\ ops[clients[c].op].client = c
         /\ pinned[clients[c].op] = clients[c].payload

C26_Step ==
  \A c \in Clients :
    LET me == clients[c]
        to == clients'[c]
    IN /\ me.send # to.send =>
            \/ me.send = "idle" /\ to.send = "uploading"
            \/ me.send = "uploading" /\ to.send = "anchoring"
            \/ me.send = "uploading" /\ to.send = "idle" /\ to.outcome = "Failed:upload"
            \/ me.send = "anchoring" /\ to.send = "idle"
                 /\ to.outcome \in {"Delivered", "Failed:ledger"}
       /\ me.send = "idle" /\ to.send = "uploading" =>
            /\ decryptMessage(to.payload.nonce, to.payload.box, PublicKey(me.key),
                              SecretKey(to.peerPk)) = Decrypted(to.plaintext)
            /\ <<pinned, ops>>' = <<pinned, ops>>
       /\ me.send = "uploading" /\ to.send = "anchoring" =>
            /\ pinned' = Append(pinned, me.payload)
            /\ Len(ops') = Len(ops) + 1
            /\ ops'[Len(ops')].cid = CidOf(Len(pinned'))
            /\ ops'[Len(ops')].status = "pending"
       /\ to.send = me.send => ( \A o \in 1..Len(ops') : ops'[o].client = c => o <= Len(ops) )

C26_Terminates ==
  \A c \in Clients :
    isSending(c) ~> ( ~isSending(c) /\ clients[c].outcome \in SendEnds )

RECURSIVE ScanList(_, _, _, _, _)
ScanList(S, store, key, convId, n) ==
  IF n = 0 THEN <<>>
  ELSE
    LET before  == ScanList(S, store, key, convId, n - 1)
        msgJson == get_message(S, convId, n)
        parsed  == JsonParse(msgJson)
        got     == fetchFromIPFS(store, parsed.obj[F_cid].s)
        decrypted == decryptMessage(got.payload.nonce, got.payload.box,
                                    decodePublicKey(got.payload.senderPub).data,
                                    SecretKey(key))
    IN IF msgJson = <<>> THEN before
       ELSE Append(before, [text |-> RenderText(decrypted),
                            timestamp |-> parsed.obj[F_timestamp].n])

C27_Step ==
  \A c \in Clients :
    RecvCompletes(c) =>
      /\ clients'[c].messages =
           ScanList(Storage, pinned, clients[c].key, clients[c].rconv,
                    clients[c].lastIndex)
      /\ ( /\ clients[c].lastIndex = get_last_index(Storage, clients[c].rconv)
           /\ clients[c].messages =
                ScanList(Storage, pinned, clients[c].key, clients[c].rconv,
                         get_last_index(Storage, clients[c].rconv)) )
           => clients'[c].messages = clients[c].messages

\* C27: the list a completed receive shows is the scan of the ledger and the
\* store, under the client's key, from index 1 to the last index it read,
\* whatever the list was before; so a receive over a ledger whose scan the
\* list already is leaves the list as it is.
C27_FullRescan == [][C27_Step]_vars

\* B's list is the result of an earlier receive of the conversation of A and
\* B, and a second receive has read the same two entries from the same
\* ledger.
C27_Witness ==
  LET b == clients[<<"B">>]
  IN /\ b.recv = "scanning"
     /\ b.i > b.lastIndex
     /\ b.rconv = conversationIdFor(<<"A">>, <<"B">>)
     /\ b.lastIndex = 2
     /\ get_last_index(Storage, b.rconv) = 2
     /\ Len(b.messages) = 2
     /\ b.messages = b.fetched
     /\ b.messages[1].text = Marker

\* ------------------------------------------------------------------------
\* Timestamps in index order, while the ledger clock advances.
\* ------------------------------------------------------------------------

\* A content id given to add_message that carries a timestamp member of its
\* own: x","timestamp":1,"y":"
StampCid ==
  <<"x", "\"", ",", "\"", "t", "i", "m", "e", "s", "t", "a", "m", "p", "\"", ":",
    "1", ",", "\"", "y", "\"", ":", "\"">>

\* A sends to B and another caller appends a record under the content id
\* above, while the clock advances; B receives.
NextStamp ==
  \/ Tick(MaxTimeProfile)
  \/ AddMessage({conversationIdFor(<<"A">>, <<"B">>)}, {StampCid})
  \/ SendStart(<<"A">>, {conversationIdFor(<<"A">>, <<"B">>)}, {"n1"})
  \/ UploadOk(<<"A">>)
  \/ \E o \in 1..Len(ops) : LedgerExecute(o)
  \/ SendFinal(<<"A">>)
  \/ RecvStart(<<"B">>, {conversationIdFor(<<"A">>, <<"B">>)})
  \/ RecvStep(<<"B">>)
  \/ RecvDone(<<"B">>)

SpecStamp == InitChat /\ [][NextStamp]_vars

\* The timestamp a reader of the record at (convId, index) gets.
TimestampAt(convId, index) ==
  JsonParse(get_message(Storage, convId, index)).obj[F_timestamp].n

NonDecreasing(list) ==
  \A i, j \in 1..Len(list) : i < j => list[i].timestamp <= list[j].timestamp

\* C28: in the conversation the timestamps of the records are non-decreasing
\* in index order, and so are the timestamps of the list a receive builds and
\* of the list a receive has shown.
C28_TimestampOrder ==
  LET convId == conversationIdFor(<<"A">>, <<"B">>)
      last   == get_last_index(Storage, convId)
      ts     == [i \in 1..last |-> TimestampAt(convId, i)]
  IN /\ \A i, j \in 1..last : i < j => ts[i] <= ts[j]
     /\ \A i \in 1..last : ts[i] \in StartTime..now
     /\ NonDecreasing(clients[<<"B">>].fetched)
     /\ NonDecreasing(clients[<<"B">>].messages)

\* B has received two messages of A anchored at different times, and a record
\* whose content id names a timestamp of its own was appended after them.
C28_Witness ==
  LET convId == conversationIdFor(<<"A">>, <<"B">>)
      b      == clients[<<"B">>]
  IN /\ get_last_index(Storage, convId) = 3
     /\ TimestampAt(convId, 1) < TimestampAt(convId, 2)
     /\ TimestampAt(convId, 3) = MaxTimeProfile
     /\ JsonParse(get_message(Storage, convId, 3)).obj[F_cid].s = <<"x">>
     /\ Len(b.messages) = 2
     /\ b.messages[1].timestamp < b.messages[2].timestamp

\* ------------------------------------------------------------------------
\* C29: the event log of a conversation against a direct scan
\* ------------------------------------------------------------------------

ChatEventPrefix ==
  <<"c", "h", "a", "t", ":", "m", "e", "s", "s", "a", "g", "e", ":">>

isChatEvent(ev) ==
  /\ Len(ev) > Len(ChatEventPrefix)
  /\ SubSeq(ev, 1, Len(ChatEventPrefix)) = ChatEventPrefix

\* The position of the last ':' of an event text: the index that follows it
\* is written in digits, so it is the separator of <convId> and <index>
\* whatever the conversation id contains.
lastColon(ev) ==
  CHOOSE i \in 1..Len(ev) :
    /\ ev[i] = ":"
    /\ \A j \in (i + 1)..Len(ev) : ev[j] # ":"

eventConvId(ev) == SubSeq(ev, Len(ChatEventPrefix) + 1, lastColon(ev) - 1)

eventIndex(ev) == parseInt(SubSeq(ev, lastColon(ev) + 1, Len(ev)))

\* The indexes a poller reads off the event log for one conversation, in the
\* order of the log.
RECURSIVE Replay(_, _)
Replay(ev, convId) ==
  IF ev = <<>> THEN <<>>
  ELSE IF isChatEvent(Head(ev)) /\ eventConvId(Head(ev)) = convId
    THEN <<eventIndex(Head(ev))>> \o Replay(Tail(ev), convId)
    ELSE Replay(Tail(ev), convId)

\* The indexes a direct scan visits: 1..get_last_index, each with its record.
DirectScan(S, convId) == [i \in 1..get_last_index(S, convId) |-> i]

\* C29: for every conversation the message events of the log, read in log
\* order, carry exactly the indexes 1, 2, .., get_last_index, one event per
\* stored message and none for an index that holds no record; the replay of
\* the log equals the direct scan.
C29_ReplayEqualsScan ==
  \A convId \in ConvIds :
    /\ Replay(events, convId) = DirectScan(Storage, convId)
    /\ \A i \in 1..Len(Replay(events, convId)) :
         get_message(Storage, convId, i) # <<>>
    /\ Len(Replay(events, convId)) = Appends(appended, convId)

\* Two conversations, one id a prefix of the other up to a ':', appended to
\* in turn: the log holds the events of both, interleaved.
C29_Witness ==
  /\ Len(events) = 3
  /\ eventConvId(events[1]) = <<"c">>
  /\ eventConvId(events[2]) = <<"c", ":", "m", "s", "g", ":", "1">>
  /\ eventConvId(events[3]) = <<"c">>
  /\ \A i \in 1..3 : isChatEvent(events[i])
  /\ Replay(events, <<"c">>) = <<1, 2>>
  /\ Replay(events, <<"c", ":", "m", "s", "g", ":", "1">>) = <<1>>

\* ------------------------------------------------------------------------
\* C30: handlePrivacyChange when the write fails
\* ------------------------------------------------------------------------

\* The account effect: once the profile of the account is found, the privacy
\* state is set from getPrivacy, all-true when nothing is stored.
LoadPrivacy(c) ==
  /\ get_profile_by_address(Storage, c) # <<>>
  /\ clients' = [clients EXCEPT ![c] =
                   [@ EXCEPT !.privacy = [loaded |-> TRUE,
                                          flags |-> ObservedPrivacy(Storage, c)]]]
  /\ UNCHANGED <<pinned, sealedFor, ops>>
  /\ ChatUnchangedLedger

\* handlePrivacyChange up to the call of the adapter: a checkbox of the
\* settings panel (rendered once the privacy state is set) is clicked, next
\* is the state with that flag flipped, setPrivacyState(next) is called and
\* setPrivacy sends the operation.  One write of a client is under way at a
\* time.
PrivacyChange(c, boxes) ==
  \E box \in boxes :
    LET me   == clients[c]
        next == [me.privacy.flags EXCEPT ![box] = ~@]
    IN /\ me.privacy.loaded
       /\ me.pwrite.reported # "waiting"
       /\ Len(events) < MaxEvents
       /\ clients' = [clients EXCEPT ![c] =
                        [@ EXCEPT !.privacy = [loaded |-> TRUE, flags |-> next],
                                  !.pwrite = [flags |-> next, status |-> "pending",
                                              reported |-> "waiting"]]]
       /\ UNCHANGED <<pinned, sealedFor, ops>>
       /\ ChatUnchangedLedger

\* The ledger executes the set_privacy operation of c.
PrivacyExecute(c) ==
  LET w == clients[c].pwrite
  IN /\ w.status = "pending"
     /\ Executed("set_privacy", c, w.flags,
                 set_privacy(Storage, events, c, w.flags[1], w.flags[2], w.flags[3]))
     /\ clients' = [clients EXCEPT ![c] = [@ EXCEPT !.pwrite.status = "Success"]]
     /\ UNCHANGED <<appended, registered, claimed, seal, indexer, pinned, sealedFor, ops>>

\* The operation ends with a final status other than Success without having
\* been executed.
PrivacyReject(c) ==
  /\ clients[c].pwrite.status = "pending"
  /\ clients' = [clients EXCEPT ![c] = [@ EXCEPT !.pwrite.status = "Error"]]
  /\ UNCHANGED <<pinned, sealedFor, ops>>
  /\ ChatUnchangedLedger

\* waitFinalExecution answers: setPrivacy returns on Success and throws on
\* any other status; the catch of handlePrivacyChange logs and alerts.
PrivacyReturn(c) ==
  LET w == clients[c].pwrite
  IN /\ w.reported = "waiting"
     /\ w.status # "pending"
     /\ clients' = [clients EXCEPT ![c] =
                      [@ EXCEPT !.pwrite.reported =
                                  IF w.status = "Success" THEN "returned"
                                  ELSE "threw"]]
     /\ UNCHANGED <<pinned, sealedFor, ops>>
     /\ ChatUnchangedLedger

NextSettings ==
  \/ RegisterProfile({<<"A">>}, {<<"b", "o">>}, {<<>>}, {<<>>}, {<<>>})
  \/ LoadPrivacy(<<"A">>)
  \/ PrivacyChange(<<"A">>, 1..3)
  \/ PrivacyExecute(<<"A">>)
  \/ PrivacyReject(<<"A">>)
  \/ PrivacyReturn(<<"A">>)

SpecSettings == InitChat /\ [][NextSettings]_vars

\* C30: while the last set_privacy call of handlePrivacyChange stands
\* reported as failed, the privacy flags the client holds and shows are the
\* flags stored on the ledger for its address.
C30_FailedWriteRestores ==
  \A c \in Clients :
    clients[c].pwrite.reported = "threw"
      => clients[c].privacy.flags = ObservedPrivacy(Storage, c)

\* ------------------------------------------------------------------------
\* C31: a send of a client against a receive of the same client
\* ------------------------------------------------------------------------

\* A sends into its conversation with B while the fetch effect of A's own
\* page scans the same conversation.
NextOwn ==
  \/ SendStart(<<"A">>, {conversationIdFor(<<"A">>, <<"B">>)}, {"n1"})
  \/ UploadOk(<<"A">>)
  \/ \E o \in 1..Len(ops) : LedgerExecute(o)
  \/ SendFinal(<<"A">>)
  \/ RecvStart(<<"A">>, {conversationIdFor(<<"A">>, <<"B">>)})
  \/ RecvStep(<<"A">>)
  \/ RecvDone(<<"A">>)

SpecOwn == InitChat /\ [][NextOwn]_vars

\* The sends of c that handleSend has ended as delivered.
DeliveredOps(c) ==
  { o \in 1..Len(ops) :
      /\ ops[o].client = c
      /\ ops[o].status = "Success"
      /\ ~(clients[c].send = "anchoring" /\ clients[c].op = o) }

\* C31: in a page that stays in one conversation, every message of the
\* client whose send was delivered has its entry in the displayed list: the
\* list is never shorter than the number of delivered sends.
C31_DeliveredStaysDisplayed ==
  \A c \in Clients : Cardinality(DeliveredOps(c)) <= Len(clients[c].messages)

\* ------------------------------------------------------------------------
\* C33: the sender reads its own message back
\* ------------------------------------------------------------------------

\* C33: while a client scans a conversation, every entry it has fetched
\* for a message of its own whose send was delivered, sealed under the
\* keypair it still holds, shows the plaintext it sent.
C33_SenderReadsBack ==
  \A c \in Clients :
    LET me == clients[c]
    IN me.recv = "scanning"
         => \A j \in 1..Len(me.fetched) :
              /\ \E o \in DeliveredOps(c) :
                    ops[o].convId = me.rconv /\ ops[o].index = j
              /\ SealedAt(me.rconv, j).from = me.key
              => me.fetched[j].text = SealedAt(me.rconv, j).m

\* ------------------------------------------------------------------------
\* C34: the username index only grows
\* ------------------------------------------------------------------------

C34_IndexKeeps ==
  \A c \in claimed : IndexOwner(Storage, toLowerAscii(c[2])) = c[1]

C34_Step ==
  /\ \A n \in IndexNames :
       IndexOwner(Storage, n) # <<>> => IndexOwner(Storage', n) = IndexOwner(Storage, n)
  /\ ( /\ ret'.op = "register_profile"
       /\ ret'.b # <<>>
       /\ \E c \in claimed : c[1] # ret'.a /\ SameUpToAsciiCase(c[2], ret'.b) )
     => (~ret'.ok /\ Storage' = Storage)

C35_ConversationFrame ==
  \A c \in ConvIds :
    LET appendedTo == ret'.op = "add_message" /\ ret'.a = c /\ events' # events
    IN /\ ~appendedTo => get_last_index(Storage', c) = get_last_index(Storage, c)
       /\ \A i \in 1..(MaxEvents + 1) :
            ~(appendedTo /\ i = get_last_index(Storage', c))
              => get_message(Storage', c, i) = get_message(Storage, c, i)

\* The records of an address change only in its own operations.
C35_AddressFrame ==
  \A a \in Addresses \cup BlockAddresses :
    LET called(op) == ret'.op = op /\ ret'.a = a /\ now' = now
    IN /\ ~called("register_profile")
            => get_profile_by_address(Storage', a) = get_profile_by_address(Storage, a)
       /\ ~called("set_privacy")
            => get_privacy(Storage', a) = get_privacy(Storage, a)
       /\ ~called("touch_last_seen")
            => get_last_seen(Storage', a) = get_last_seen(Storage, a)

\* is_blocked changes for the ordered pair of the call only.
C35_BlockFrame ==
  \A o, t \in Addresses \cup BlockAddresses :
    ~(ret'.op = "set_blocked" /\ ret'.a = o /\ ret'.b = t)
      => is_blocked(Storage', o, t) = is_blocked(Storage, o, t)

\* C35: every step of the ledger leaves alone what its operation does not
\* name: the other conversations and the other slots of a conversation, the
\* blocked flag of every other ordered pair, and the profile, privacy and
\* last-seen records of the other addresses; with ids and addresses that
\* contain ':'.
C35_OwnRecordOnly ==
  [][C35_ConversationFrame /\ C35_AddressFrame /\ C35_BlockFrame]_vars

\* ------------------------------------------------------------------------
\* The views of the page: landing, profile, home and chat
\* ------------------------------------------------------------------------

\* The view effect for a view other than the chat: the active conversation
\* and the blocked flag are cleared.
ViewEffect(me) ==
  IF me.view # "chat"
    THEN [me EXCEPT !.active = <<>>, !.blockedInConversation = FALSE]
    ELSE me

\* handleConnectWallet, from the landing view or the chat view: the cached
\* account, its profile read from the ledger, then the home view with the
\* privacy state, or the profile view when there is no profile.  The first
\* connection sets the account and so arms the account effect.
ConnectWallet(c) ==
  LET me  == clients[c]
      has == get_profile_by_address(Storage, c) # <<>>
  IN /\ me.view \in {"landing", "chat"}
     /\ clients' =
          [clients EXCEPT ![c] =
             ViewEffect([me EXCEPT
               !.accountEffect = @ \/ me.view = "landing",
               !.profile = has,
               !.privacy = IF has
                             THEN [loaded |-> TRUE,
                                   flags |-> ObservedPrivacy(Storage, c)]
                             ELSE @,
               !.view = IF has THEN "home" ELSE "profile"])]
     /\ UNCHANGED <<pinned, sealedFor, ops>>
     /\ ChatUnchangedLedger

\* The account effect: the profile is read again; with a profile the chat
\* view stays and any other view becomes the home view, without one the
\* profile view opens.
AccountEffect(c) ==
  LET me  == clients[c]
      has == get_profile_by_address(Storage, c) # <<>>
  IN /\ me.accountEffect
     /\ clients' =
          [clients EXCEPT ![c] =
             ViewEffect([me EXCEPT
               !.accountEffect = FALSE,
               !.profile = has,
               !.privacy = IF has
                             THEN [loaded |-> TRUE,
                                   flags |-> ObservedPrivacy(Storage, c)]
                             ELSE @,
               !.view = IF has THEN (IF @ = "chat" THEN "chat" ELSE "home")
                        ELSE "profile"])]
     /\ UNCHANGED <<pinned, sealedFor, ops>>
     /\ ChatUnchangedLedger

\* handleCreateProfile from the profile view: registerProfile is executed;
\* on success the profile is read back and the home view opens, on failure
\* the view stays.
CreateProfile(c, unames) ==
  \E username \in unames :
    LET me == clients[c]
        r  == register_profile(Storage, events, now, c, username, username,
                               <<>>, <<>>)
    IN /\ me.view = "profile"
       /\ Len(events) < MaxEvents
       /\ Executed("register_profile", c, username, r)
       /\ registered' =
            IF r.ok THEN [registered EXCEPT ![c] = <<IF @[1] = 0 THEN now ELSE @[1], now>>]
            ELSE registered
       /\ claimed' = IF r.ok THEN claimed \cup {<<c, username>>} ELSE claimed
       /\ clients' =
            [clients EXCEPT ![c] =
               IF r.ok THEN ViewEffect([me EXCEPT !.profile = TRUE, !.view = "home"])
               ELSE me]
       /\ UNCHANGED <<appended, seal, indexer, pinned, sealedFor, ops>>

\* handleNavigateToChat from the home view, with the profile of the page and
\* a profile found by the search: the conversation of the two addresses
\* becomes active, the chat view opens, and the fetch effect calls
\* handleFetchMessages for it.  One receive of a page is under way at a time.
NavigateToChat(c, peers) ==
  \E peer \in peers :
    LET me     == clients[c]
        convId == conversationIdFor(c, peer)
    IN /\ me.view = "home"
       /\ me.profile
       /\ get_profile_by_address(Storage, peer) # <<>>
       /\ me.recv = "idle"
       /\ clients' =
            [clients EXCEPT ![c] =
               [me EXCEPT !.view = "chat", !.active = convId,
                          !.recv = "scanning", !.rconv = convId,
                          !.lastIndex = get_last_index(Storage, convId),
                          !.i = 1, !.fetched = <<>>]]
       /\ UNCHANGED <<pinned, sealedFor, ops>>
       /\ ChatUnchangedLedger

\* handleBackToHome, and the view effect that follows.
BackToHome(c) ==
  /\ clients[c].view = "chat"
  /\ clients' = [clients EXCEPT ![c] = ViewEffect([@ EXCEPT !.view = "home"])]
  /\ UNCHANGED <<pinned, sealedFor, ops>>
  /\ ChatUnchangedLedger

ActiveConvIdDemo(me) == DemoConvId

\* convId of handleSend and handleFetchMessages.
ActiveConvId(me) ==
  IF me.active # <<>> /\ me.profile THEN me.active ELSE DemoConvId

\* The Send button of the chat view.
SendFromChat(c, nonces) ==
  /\ clients[c].view = "chat"
  /\ SendStart(c, {ActiveConvId(clients[c])}, nonces)

NextNav ==
  \/ RegisterProfile({<<"B">>}, {<<"a", "l">>}, {<<>>}, {<<>>}, {<<>>})
  \/ ConnectWallet(<<"A">>)
  \/ AccountEffect(<<"A">>)
  \/ CreateProfile(<<"A">>, {<<"b", "o", "b">>})
  \/ NavigateToChat(<<"A">>, Addresses)
  \/ BackToHome(<<"A">>)
  \/ SendFromChat(<<"A">>, {"n1"})
  \/ UploadOk(<<"A">>)
  \/ \E o \in 1..Len(ops) : LedgerExecute(o)
  \/ SendFinal(<<"A">>)
  \/ RecvStep(<<"A">>)
  \/ RecvFetchFail(<<"A">>)
  \/ RecvDone(<<"A">>)

SpecNav == InitChat /\ [][NextNav]_vars

\* ------------------------------------------------------------------------
\* C36: the conversation a send from the chat view is anchored under
\* ------------------------------------------------------------------------

\* The chat view is open only with a profile and an active conversation, and
\* no operation was sent for the fallback id.
C36_ChatHasConversation ==
  /\ \A c \in Clients :
       clients[c].view = "chat"
         => /\ clients[c].active # <<>>
            /\ clients[c].profile
            /\ \E peer \in Addresses : clients[c].active = conversationIdFor(c, peer)
  /\ \A o \in 1..Len(ops) : ops[o].convId # DemoConvId

\* A send that starts takes the conversation active at that moment, and the
\* operation it sends later carries that id.
C36_Step ==
  /\ \A c \in Clients :
       (clients[c].send = "idle" /\ clients'[c].send = "uploading")
         => /\ clients[c].view = "chat"
            /\ clients'[c].sconv = clients[c].active
  /\ Len(ops') > Len(ops)
       => ops'[Len(ops')].convId = clients[ops'[Len(ops')].client].sconv

\* C36: every send from the chat view is anchored under the id of the
\* conversation that was active when it started, which is
\* conversationIdFor(account, peer.address) of a peer found by the search;
\* the chat view is never open without an active conversation and a
\* profile, and no operation carries the fallback id.
C36_SendsUnderActive == []C36_ChatHasConversation /\ [][C36_Step]_vars

\* A has sent into the conversation with B and, from the chat view opened
\* again with itself as the peer, into that second conversation.
C36_Witness ==
  /\ Len(ops) = 2
  /\ ops[1].convId = conversationIdFor(<<"A">>, <<"B">>)
  /\ ops[2].convId = conversationIdFor(<<"A">>, <<"A">>)
  /\ ops[1].status = "Success" /\ ops[2].status = "Success"
  /\ clients[<<"A">>].view = "chat"

\* ------------------------------------------------------------------------
\* C32: the displayed list against the active conversation
\* ------------------------------------------------------------------------

\* C32: while the chat view shows a conversation that holds no message on
\* the ledger, the displayed list is empty: it shows nothing fetched for or
\* sent in another conversation.
C32_ListOfActiveConversation ==
  \A c \in Clients :
    LET me == clients[c]
    IN (me.view = "chat" /\ get_last_index(Storage, ActiveConvId(me)) = 0)
         => me.messages = <<>>

\* ------------------------------------------------------------------------
\* The indexer loop.  One tick of the ledger clock is one period, so the
\* period of a slot is the timestamp add_message stamps its record with.
\* ------------------------------------------------------------------------

\* The period in which the chat event ev was emitted.
EventPeriod(ev) == TimestampAt(eventConvId(ev), eventIndex(ev))

\* provider.getEvents({start: {period: start, thread: 0},
\* end: createSlot(end), emitter_address, is_final: true}): the events of the
\* contract in the slots of the periods start..end, oldest first.  An event
\* is taken as final once emitted.
getEvents(ev, start, end) ==
  LET inWindow(e) == start <= EventPeriod(e) /\ EventPeriod(e) <= end
  IN SelectSeq(ev, inWindow)

IndexerUnchangedRest ==
  UNCHANGED <<Storage, events, now, ret, appended, registered, claimed, seal,
              pinned, sealedFor, ops, clients>>

IndexerPollFailsAdvances ==
  /\ indexer.lastPeriod < MaxPolls * PERIOD_WINDOW
  /\ indexer' = [indexer EXCEPT !.last = "error",
                                !.lastPeriod = @ + PERIOD_WINDOW]
  /\ IndexerUnchangedRest

\* One turn of the loop in which getEvents answers: every event of the
\* window is logged, the cursor moves on by the window, and the loop sleeps
\* 5 s.
IndexerPoll ==
  /\ indexer.lastPeriod < MaxPolls * PERIOD_WINDOW
  /\ indexer' =
       [lastPeriod |-> indexer.lastPeriod + PERIOD_WINDOW,
        last |-> "ok",
        logged |-> indexer.logged
                     \o getEvents(events, indexer.lastPeriod,
                                  indexer.lastPeriod + PERIOD_WINDOW)]
  /\ IndexerUnchangedRest

\* One turn of the loop in which getEvents throws: the catch logs the error
\* and the loop sleeps 8 s.
IndexerPollFails ==
  /\ indexer.lastPeriod < MaxPolls * PERIOD_WINDOW
  /\ indexer' = [indexer EXCEPT !.last = "error"]
  /\ IndexerUnchangedRest

NextIndexer ==
  \/ Tick(MaxTime)
  \/ AddMessage(ConvIds, {<<"Q", "1">>})
  \/ IndexerPoll
  \/ IndexerPollFails

SpecIndexer == InitContract /\ [][NextIndexer]_vars

\* The loop goes on to its next turn after every sleep.
LiveIndexer == InitContract /\ [][NextIndexer]_vars /\ WF_vars(IndexerPoll)

IsLogged(ev) == \E j \in 1..Len(indexer.logged) : indexer.logged[j] = ev

C37_NoneBehindCursor ==
  \A k \in 1..Len(events) :
    EventPeriod(events[k]) < indexer.lastPeriod => IsLogged(events[k])

\* ------------------------------------------------------------------------
\* C38: the cursor of the indexer
\* ------------------------------------------------------------------------

C38_Step ==
  /\ indexer'.lastPeriod >= indexer.lastPeriod
  /\ indexer'.lastPeriod # indexer.lastPeriod
       => /\ indexer'.last = "ok"
          /\ indexer'.lastPeriod = indexer.lastPeriod + PERIOD_WINDOW
  /\ (indexer' # indexer /\ indexer'.last = "ok")
       => indexer'.lastPeriod = indexer.lastPeriod + PERIOD_WINDOW
  /\ (indexer' # indexer /\ indexer'.last = "error")
       => /\ indexer'.lastPeriod = indexer.lastPeriod
          /\ indexer'.logged = indexer.logged

\* After a poll that failed the loop polls again, the same window.
C38_LoopGoesOn ==
  (indexer.last = "error" /\ indexer.lastPeriod < MaxPolls * PERIOD_WINDOW)
    => ENABLED IndexerPoll

\* C38: the cursor never decreases; it moves only in a poll that succeeded,
\* and then by exactly PERIOD_WINDOW; a poll that failed leaves the cursor
\* and the log as they were, and the loop goes on to poll the same window.
C38_CursorMovesOnSuccess == []C38_LoopGoesOn /\ [][C38_Step]_vars

\* A poll failed after one that succeeded, and the cursor still is one
\* window from the start.
C38_Witness ==
  /\ indexer.last = "error"
  /\ indexer.lastPeriod = PERIOD_WINDOW
  /\ Len(events) > Len(indexer.logged)

====
